---- MODULE Spec2Model ----
(***************************************************************************)
(* Verification model of the RFP proposal-analysis backend:                *)
(*   - the RFP/proposal mismatch detector (backend/services/               *)
(*     mismatch_detector.py), a pure scoring function;                     *)
(*   - the analysis/chat session workflow (backend/services/workflow.py)   *)
(*     as driven by the FastAPI routers (backend/routers/*.py).            *)
(* Texts are sequences of one-character strings so that the substring and  *)
(* lower-casing operations of the code are computed, not assumed.          *)
(***************************************************************************)
EXTENDS Integers, Sequences, FiniteSets, TLC

(***************************************************************************)
(* Text helpers: str.lower() and the `in` substring test.                  *)
(***************************************************************************)
UpperChars == <<"A","B","C","D","E","F","G","H","I","J","K","L","M",
                "N","O","P","Q","R","S","T","U","V","W","X","Y","Z">>

LowerChars == <<"a","b","c","d","e","f","g","h","i","j","k","l","m",
                "n","o","p","q","r","s","t","u","v","w","x","y","z">>

LowerChar(c) ==
    IF \E i \in 1..Len(UpperChars) : UpperChars[i] = c
    THEN LowerChars[CHOOSE i \in 1..Len(UpperChars) : UpperChars[i] = c]
    ELSE c

\* str.lower()
Lower(text) == [i \in 1..Len(text) |-> LowerChar(text[i])]

\* keyword in text
Contains(text, keyword) ==
    \E i \in 1..(Len(text) - Len(keyword) + 1) :
        SubSeq(text, i, i + Len(keyword) - 1) = keyword

\* any(keyword in text for keyword in keywords)
AnyKeywordIn(text, keywords) ==
    \E k \in 1..Len(keywords) : Contains(text, keywords[k])

technical_keywords ==
    << [category |-> "ai", keywords |-> << <<"a","i">>, <<"a","r","t","i","f","i","c","i","a","l"," ","i","n","t","e","l","l","i","g","e","n","c","e">>, <<"m","a","c","h","i","n","e"," ","l","e","a","r","n","i","n","g">>, <<"m","l">>, <<"n","e","u","r","a","l"," ","n","e","t","w","o","r","k">> >>],
       [category |-> "cloud", keywords |-> << <<"c","l","o","u","d">>, <<"a","w","s">>, <<"a","z","u","r","e">>, <<"g","c","p">>, <<"k","u","b","e","r","n","e","t","e","s">>, <<"d","o","c","k","e","r">> >>],
       [category |-> "api", keywords |-> << <<"a","p","i">>, <<"r","e","s","t">>, <<"g","r","a","p","h","q","l">>, <<"m","i","c","r","o","s","e","r","v","i","c","e","s">>, <<"i","n","t","e","g","r","a","t","i","o","n">> >>],
       [category |-> "database", keywords |-> << <<"d","a","t","a","b","a","s","e">>, <<"s","q","l">>, <<"n","o","s","q","l">>, <<"m","o","n","g","o","d","b">>, <<"p","o","s","t","g","r","e","s","q","l">>, <<"m","y","s","q","l">> >>],
       [category |-> "security", keywords |-> << <<"s","e","c","u","r","i","t","y">>, <<"e","n","c","r","y","p","t","i","o","n">>, <<"a","u","t","h","e","n","t","i","c","a","t","i","o","n">>, <<"a","u","t","h","o","r","i","z","a","t","i","o","n">>, <<"s","s","l">>, <<"t","l","s">> >>],
       [category |-> "mobile", keywords |-> << <<"m","o","b","i","l","e">>, <<"i","o","s">>, <<"a","n","d","r","o","i","d">>, <<"r","e","a","c","t"," ","n","a","t","i","v","e">>, <<"f","l","u","t","t","e","r">> >>],
       [category |-> "web", keywords |-> << <<"w","e","b">>, <<"f","r","o","n","t","e","n","d">>, <<"b","a","c","k","e","n","d">>, <<"r","e","a","c","t">>, <<"a","n","g","u","l","a","r">>, <<"v","u","e">> >>] >>

scope_keywords ==
    << [category |-> "deliverables", keywords |-> << <<"d","e","l","i","v","e","r","a","b","l","e">>, <<"d","e","l","i","v","e","r","y">>, <<"o","u","t","p","u","t">>, <<"r","e","s","u","l","t">> >>],
       [category |-> "phases", keywords |-> << <<"p","h","a","s","e">>, <<"m","i","l","e","s","t","o","n","e">>, <<"s","t","a","g","e">>, <<"i","t","e","r","a","t","i","o","n">> >>],
       [category |-> "support", keywords |-> << <<"s","u","p","p","o","r","t">>, <<"m","a","i","n","t","e","n","a","n","c","e">>, <<"w","a","r","r","a","n","t","y">>, <<"t","r","a","i","n","i","n","g">> >>],
       [category |-> "documentation", keywords |-> << <<"d","o","c","u","m","e","n","t","a","t","i","o","n">>, <<"m","a","n","u","a","l">>, <<"g","u","i","d","e">>, <<"s","p","e","c","i","f","i","c","a","t","i","o","n">> >>],
       [category |-> "testing", keywords |-> << <<"t","e","s","t","i","n","g">>, <<"q","a">>, <<"q","u","a","l","i","t","y"," ","a","s","s","u","r","a","n","c","e">>, <<"v","a","l","i","d","a","t","i","o","n">> >>] >>

exit_keywords ==
    << <<"e","x","i","t">>,
       <<"q","u","i","t">>,
       <<"e","n","d">>,
       <<"s","t","o","p">>,
       <<"b","y","e">>,
       <<"g","o","o","d","b","y","e">> >>

\* "AI cloud API: testing, support"
RfpTextCloud == <<"A","I"," ","c","l","o","u","d"," ","A","P","I",":"," ","t","e","s","t","i","n","g",","," ","s","u","p","p","o","r","t">>

\* "AI cloud API SQL SSL iOS web output stage warranty guide QA"
RfpTextAll == <<"A","I"," ","c","l","o","u","d"," ","A","P","I"," ","S","Q","L"," ","S","S","L"," ","i","O","S"," ","w","e","b"," ","o","u","t","p","u","t"," ","s","t","a","g","e"," ","w","a","r","r","a","n","t","y"," ","g","u","i","d","e"," ","Q","A">>

\* "We use AWS and GraphQL with QA"
PropTextAws == <<"W","e"," ","u","s","e"," ","A","W","S"," ","a","n","d"," ","G","r","a","p","h","Q","L"," ","w","i","t","h"," ","Q","A">>

\* "Maintenance and training"
PropTextMaint == <<"M","a","i","n","t","e","n","a","n","c","e"," ","a","n","d"," ","t","r","a","i","n","i","n","g">>

\* "React frontend, iOS app, MySQL, TLS, milestone"
PropTextReact == <<"R","e","a","c","t"," ","f","r","o","n","t","e","n","d",","," ","i","O","S"," ","a","p","p",","," ","M","y","S","Q","L",","," ","T","L","S",","," ","m","i","l","e","s","t","o","n","e">>

\* "compare budgets"
QuestionBudget == <<"c","o","m","p","a","r","e"," ","b","u","d","g","e","t","s">>

\* "ok, goodbye for now"
QuestionGoodbye == <<"o","k",","," ","g","o","o","d","b","y","e"," ","f","o","r"," ","n","o","w">>

\* "Which do you recommend?"
QuestionRecommend == <<"W","h","i","c","h"," ","d","o"," ","y","o","u"," ","r","e","c","o","m","m","e","n","d","?">>

\* "Please STOP"
QuestionStop == <<"P","l","e","a","s","e"," ","S","T","O","P">>

\* "Bye"
QuestionBye == <<"B","y","e">>

\* "QUIT"
QuestionQuit == <<"Q","U","I","T">>

\* "Exit the chat"
QuestionExit == <<"E","x","i","t"," ","t","h","e"," ","c","h","a","t">>

\* "who is cheapest"
QuestionCheapest == <<"w","h","o"," ","i","s"," ","c","h","e","a","p","e","s","t">>

\* "What about risks?"
QuestionRisks == <<"W","h","a","t"," ","a","b","o","u","t"," ","r","i","s","k","s","?">>

(***************************************************************************)
(* Input domains of the mismatch detector.                                 *)
(***************************************************************************)
RfpBudgets == {0, 100000, 120000}

ProposalBudgets == {0, 40000, 60000, 120000, 144000, 145000, 180000, 240000}

RfpTimelines == {0, 6, 10}

ProposalTimelines == {0, 3, 6, 8, 13, 18, 19}

RfpContents == {<< >>, RfpTextCloud, RfpTextAll}

ProposalContents == {<< >>, PropTextAws, PropTextMaint, PropTextReact}

RfpRecords ==
    [budget : RfpBudgets, timeline_months : RfpTimelines, content : RfpContents]

ProposalRecords ==
    [budget : ProposalBudgets, timeline_months : ProposalTimelines,
     content : ProposalContents]

\* Inputs of the runs that repeat a call and interleave other calls.
RepeatedRfpRecords ==
    { [budget |-> 120000, timeline_months |-> 6, content |-> RfpTextCloud],
      [budget |-> 100000, timeline_months |-> 10, content |-> RfpTextAll],
      [budget |-> 0, timeline_months |-> 0, content |-> << >>] }

RepeatedProposalRecords ==
    [budget : {0, 60000, 180000}, timeline_months : {0, 8},
     content : {<< >>, PropTextAws}]

\* Pairs analysed between two calls on the inputs under observation.
OtherPairs ==
    { <<[budget |-> 120000, timeline_months |-> 6, content |-> RfpTextCloud],
        [budget |-> 180000, timeline_months |-> 8, content |-> PropTextMaint]>>,
      <<[budget |-> 100000, timeline_months |-> 10, content |-> << >>],
        [budget |-> 40000, timeline_months |-> 3, content |-> << >>]>>,
      <<[budget |-> 0, timeline_months |-> 0, content |-> RfpTextAll],
        [budget |-> 0, timeline_months |-> 0, content |-> PropTextReact]>> }

MaxCalls == 3

(***************************************************************************)
(* RFPMismatchDetector                                                     *)
(***************************************************************************)
Max(a, b) == IF a >= b THEN a ELSE b

Min(a, b) == IF a <= b THEN a ELSE b

(***************************************************************************)
(* Python float arithmetic (IEEE-754 binary64, round-to-nearest-even).     *)
(* A value is a fixed-point number: Digits digits of DigitBits bits, most  *)
(* significant first, the last FractionDigits of them after the point.     *)
(* Every float result is rounded to MantissaBits significant bits, so the  *)
(* scores are computed as the interpreter computes them.                   *)
(***************************************************************************)
MantissaBits == 53

DigitBits == 10

WholeDigits == 5

FractionDigits == 8

Digits == WholeDigits + FractionDigits

RECURSIVE Pow2(_)
Pow2(n) == IF n = 0 THEN 1 ELSE 2 * Pow2(n - 1)

Base == Pow2(DigitBits)

RECURSIVE BitLen(_)
BitLen(n) == IF n = 0 THEN 0 ELSE 1 + BitLen(n \div 2)

\* the whole number n, n >= 0, as WholeDigits digits
RECURSIVE DropDigits(_, _)
DropDigits(n, count) == IF count = 0 THEN n ELSE DropDigits(n \div Base, count - 1)

WholeOf(n) == [i \in 1..WholeDigits |-> DropDigits(n, WholeDigits - i) % Base]

\* the fraction digits of rem / d and whether a rest is left
FracStep(scaled, d, rest) ==
    [digits |-> << scaled \div d >> \o rest.digits, inexact |-> rest.inexact]

RECURSIVE FracDigits(_, _, _)
FracDigits(rem, d, n) ==
    IF n = 0 THEN [digits |-> << >>, inexact |-> rem # 0]
    ELSE FracStep(rem * Base, d, FracDigits((rem * Base) % d, d, n - 1))

\* x + y + carry, digit by digit from the last
RECURSIVE AddDigits(_, _, _)
AddDigits(x, y, carry) ==
    IF x = << >> THEN << >>
    ELSE Append(AddDigits(SubSeq(x, 1, Len(x) - 1), SubSeq(y, 1, Len(y) - 1),
                          (x[Len(x)] + y[Len(y)] + carry) \div Base),
                (x[Len(x)] + y[Len(y)] + carry) % Base)

\* x - y - borrow for x >= y
RECURSIVE SubDigits(_, _, _)
SubDigits(x, y, borrow) ==
    IF x = << >> THEN << >>
    ELSE Append(SubDigits(SubSeq(x, 1, Len(x) - 1), SubSeq(y, 1, Len(y) - 1),
                          IF x[Len(x)] - y[Len(y)] - borrow < 0 THEN 1 ELSE 0),
                (Base + x[Len(x)] - y[Len(y)] - borrow) % Base)

\* x * k + carry
RECURSIVE MulDigits(_, _, _)
MulDigits(x, k, carry) ==
    IF x = << >> THEN << >>
    ELSE Append(MulDigits(SubSeq(x, 1, Len(x) - 1), k,
                          (x[Len(x)] * k + carry) \div Base),
                (x[Len(x)] * k + carry) % Base)

\* bit j of x, bit 0 the least significant
Bit(x, j) == (x[Digits - (j \div DigitBits)] \div Pow2(j % DigitBits)) % 2

\* number of bits of x up to its leading 1
BitLength(x) ==
    IF \A i \in 1..Digits : x[i] = 0 THEN 0
    ELSE LET t == CHOOSE i \in 1..Digits : x[i] # 0 /\ \A j \in 1..(i - 1) : x[j] = 0
         IN  DigitBits * (Digits - t) + BitLen(x[t])

\* 2^j as a fixed-point digit sequence
PowerOfTwo(j) ==
    [i \in 1..Digits |->
        IF i = Digits - (j \div DigitBits) THEN Pow2(j % DigitBits) ELSE 0]

\* x with its bits below bit `drop` cleared
ClearBelow(x, drop) ==
    [i \in 1..Digits |->
        IF DigitBits * (Digits - i) >= drop THEN x[i]
        ELSE IF DigitBits * (Digits - i) + DigitBits <= drop THEN 0
        ELSE (x[i] \div Pow2(drop - DigitBits * (Digits - i)))
                 * Pow2(drop - DigitBits * (Digits - i))]

\* round-half-even at bit `drop`
RoundAt(x, drop, sticky) ==
    IF drop <= 0 THEN x
    ELSE IF /\ Bit(x, drop - 1) = 1
            /\ \/ sticky
               \/ \E j \in 0..(drop - 2) : Bit(x, j) = 1
               \/ Bit(x, drop) = 1
    THEN AddDigits(ClearBelow(x, drop), PowerOfTwo(drop), 0)
    ELSE ClearBelow(x, drop)

\* the float nearest to the exact value x (plus a sticky rest)
RoundFloat(x, sticky) == RoundAt(x, BitLength(x) - MantissaBits, sticky)

QuotientFloat(whole, f) == RoundFloat(WholeOf(whole) \o f.digits, f.inexact)

\* p / r for positive integers
FloatDiv(p, r) == QuotientFloat(p \div r, FracDigits(p % r, r, FractionDigits))

One == WholeOf(1) \o [i \in 1..FractionDigits |-> 0]

\* x - 1.0 for x >= 1
FloatMinusOne(x) == RoundFloat(SubDigits(x, One, 0), FALSE)

\* 1.0 - x for 0 < x < 1
OneMinusFloat(x) == RoundFloat(SubDigits(One, x, 0), FALSE)

\* x * k for a positive integer k
FloatTimes(x, k) == RoundFloat(MulDigits(x, k, 0), FALSE)

\* int(x) for x >= 0
RECURSIVE DigitsToInt(_)
DigitsToInt(x) ==
    IF x = << >> THEN 0
    ELSE Base * DigitsToInt(SubSeq(x, 1, Len(x) - 1)) + x[Len(x)]

FloatToInt(x) == DigitsToInt(SubSeq(x, 1, WholeDigits))

\* int((ratio - 1) * k) with ratio = p / r > 1
OverrunPoints(p, r, k) == FloatToInt(FloatTimes(FloatMinusOne(FloatDiv(p, r)), k))

\* int((1 - ratio) * k) with ratio = p / r < 1
UnderrunPoints(p, r, k) == FloatToInt(FloatTimes(OneMinusFloat(FloatDiv(p, r)), k))

\* int(n / d) for a quotient that is exact in binary64 (d a power of two)
Trunc(n, d) == n \div d

\* RFPMismatch(type, severity, message, rfp_requirement, proposal_value, impact);
\* formatted strings are kept as their template label and the values inserted.
RFPMismatch(type, severity, message, label, rfp_amount, proposal_amount, subject, impact) ==
    [type |-> type, severity |-> severity, message |-> message,
     rfp_requirement |-> [label |-> label, amount |-> rfp_amount, subject |-> subject],
     proposal_value |-> [label |-> label, amount |-> proposal_amount, subject |-> subject],
     impact |-> impact]

\* ratio = p / r compared with the literal num/den.  Rounding is monotone and
\* p / r differs from num/den by more than one unit in the last place for
\* every r below 2^50, so the float comparison is the rational one.
RatioGT(p, r, num, den) == p * den > num * r

RatioLT(p, r, num, den) == p * den < num * r

\* a key the dict does not hold
Absent == -1

\* dict.get(key, default), given the value under the key
Get(value, default) == IF value = Absent THEN default ELSE value

\* if rfp_budget == 0 or proposal_budget == 0
BudgetMissingRfpOnly(rfp_budget, proposal_budget) == rfp_budget = 0

BudgetMissing(rfp_budget, proposal_budget) == rfp_budget = 0 \/ proposal_budget = 0

\* severity = "high" if budget_ratio > 1.5 else "medium"
BudgetHighInclusive(proposal_budget, rfp_budget) ==
    ~RatioLT(proposal_budget, rfp_budget, 15, 10)

BudgetHigh(proposal_budget, rfp_budget) == RatioGT(proposal_budget, rfp_budget, 15, 10)

\* if rfp_timeline == 0 or proposal_timeline == 0
TimelineMissing(rfp_timeline, proposal_timeline) ==
    rfp_timeline = 0 \/ proposal_timeline = 0

\* severity = "high" if timeline_ratio > 1.8 else "medium"
TimelineHighInclusive(proposal_timeline, rfp_timeline) ==
    ~RatioLT(proposal_timeline, rfp_timeline, 18, 10)

TimelineHigh(proposal_timeline, rfp_timeline) ==
    RatioGT(proposal_timeline, rfp_timeline, 18, 10)

\* if budget_ratio > 1.2
BudgetOverInclusive(proposal_budget, rfp_budget) ==
    ~RatioLT(proposal_budget, rfp_budget, 12, 10)

BudgetOver(proposal_budget, rfp_budget) == RatioGT(proposal_budget, rfp_budget, 12, 10)

analyze_budget_alignment(rfp, proposal) ==
    LET rfp_budget == Get(rfp.budget, 0)
        proposal_budget == Get(proposal.budget, 0)
    IN  IF BudgetMissing(rfp_budget, proposal_budget)
        THEN [score |-> 50, mismatches |-> << >>]
        ELSE IF BudgetOver(proposal_budget, rfp_budget)
        THEN [score |-> Max(20, 100 - OverrunPoints(proposal_budget, rfp_budget, 100)),
              mismatches |->
                << RFPMismatch("budget",
                      IF BudgetHigh(proposal_budget, rfp_budget) THEN "high" ELSE "medium",
                      "Proposal budget exceeds RFP budget", "Budget",
                      rfp_budget, proposal_budget, "",
                      "May require budget reallocation or scope reduction") >>]
        ELSE IF RatioLT(proposal_budget, rfp_budget, 5, 10)
        THEN [score |-> Max(60, 100 - UnderrunPoints(proposal_budget, rfp_budget, 50)),
              mismatches |->
                << RFPMismatch("budget", "medium",
                      "Proposal budget is significantly lower than RFP budget", "Budget",
                      rfp_budget, proposal_budget, "",
                      "May indicate missing scope or unrealistic pricing") >>]
        ELSE [score |-> 100, mismatches |-> << >>]

analyze_timeline_alignment(rfp, proposal) ==
    LET rfp_timeline == Get(rfp.timeline_months, 0)
        proposal_timeline == Get(proposal.timeline_months, 0)
    IN  IF TimelineMissing(rfp_timeline, proposal_timeline)
        THEN [score |-> 50, mismatches |-> << >>]
        ELSE IF RatioGT(proposal_timeline, rfp_timeline, 13, 10)
        THEN [score |-> Max(30, 100 - OverrunPoints(proposal_timeline, rfp_timeline, 80)),
              mismatches |->
                << RFPMismatch("timeline",
                      IF TimelineHigh(proposal_timeline, rfp_timeline) THEN "high" ELSE "medium",
                      "Proposal timeline exceeds RFP timeline", "Timeline",
                      rfp_timeline, proposal_timeline, "",
                      "May delay project delivery and impact business objectives") >>]
        ELSE IF RatioLT(proposal_timeline, rfp_timeline, 6, 10)
        THEN [score |-> Max(70, 100 - UnderrunPoints(proposal_timeline, rfp_timeline, 40)),
              mismatches |->
                << RFPMismatch("timeline", "medium",
                      "Proposal timeline is significantly shorter than RFP timeline", "Timeline",
                      rfp_timeline, proposal_timeline, "",
                      "May indicate unrealistic timeline or missing project phases") >>]
        ELSE [score |-> 100, mismatches |-> << >>]

\* The categories, in dictionary order, that the RFP mentions and the proposal
\* does not: the loop `for category, keywords in ....items()`.
RECURSIVE MissingCategories(_, _, _, _)
MissingCategories(taxonomy, rfp_content, proposal_content, i) ==
    IF i > Len(taxonomy) THEN << >>
    ELSE LET rfp_mentions == AnyKeywordIn(rfp_content, taxonomy[i].keywords)
             proposal_mentions == AnyKeywordIn(proposal_content, taxonomy[i].keywords)
             rest == MissingCategories(taxonomy, rfp_content, proposal_content, i + 1)
         IN  IF rfp_mentions /\ ~proposal_mentions
             THEN << taxonomy[i].category >> \o rest
             ELSE rest

\* alignment_score = max(20, 100 - len(missing_requirements) * 20)
TechnicalScoreAsScope(missing_count) ==
    IF missing_count > 0 THEN Max(40, 100 - missing_count * 15) ELSE 100

TechnicalScore(missing_count) ==
    IF missing_count > 0 THEN Max(20, 100 - missing_count * 20) ELSE 100

analyze_technical_alignment(rfp, proposal) ==
    LET rfp_content == Lower(rfp.content)
        proposal_content == Lower(proposal.content)
        missing_requirements ==
            MissingCategories(technical_keywords, rfp_content, proposal_content, 1)
    IN  [score |-> TechnicalScore(Len(missing_requirements)),
         mismatches |->
            [k \in 1..Len(missing_requirements) |->
                RFPMismatch("technical", "high",
                    "RFP requires capabilities the proposal does not address",
                    "Technical requirement", 0, 0, missing_requirements[k],
                    "Missing implementation may affect project success")]]

analyze_scope_alignment(rfp, proposal) ==
    LET rfp_content == Lower(rfp.content)
        proposal_content == Lower(proposal.content)
        missing_scope ==
            MissingCategories(scope_keywords, rfp_content, proposal_content, 1)
    IN  [score |-> IF Len(missing_scope) > 0
                   THEN Max(40, 100 - Len(missing_scope) * 15)
                   ELSE 100,
         mismatches |->
            [k \in 1..Len(missing_scope) |->
                RFPMismatch("scope", "medium",
                    "RFP mentions a scope element the proposal does not address",
                    "Scope requirement", 0, 0, missing_scope[k],
                    "Unclear scope may lead to project disputes")]]

CountSeverity(mismatches, severity) ==
    Cardinality({k \in 1..Len(mismatches) : mismatches[k].severity = severity})

\* The summary is the band sentence followed by the optional issue clause.
generate_alignment_summary(overall, mismatches) ==
    LET band == IF overall >= 90 THEN "Excellent alignment with RFP requirements."
                ELSE IF overall >= 75 THEN "Good alignment with RFP requirements."
                ELSE IF overall >= 60 THEN "Moderate alignment with some concerns."
                ELSE IF overall >= 40 THEN "Poor alignment with significant issues."
                ELSE "Very poor alignment with major mismatches."
        critical == CountSeverity(mismatches, "critical")
        high == CountSeverity(mismatches, "high")
    IN  IF critical > 0
        THEN [band |-> band, clause |-> "critical issue(s) identified.", count |-> critical]
        ELSE IF high > 0
        THEN [band |-> band, clause |-> "high-priority issue(s) identified.", count |-> high]
        ELSE [band |-> band, clause |-> "", count |-> 0]

\* overall_alignment = int((budget + timeline + technical + scope) / 4)
OverallAlignmentRounded(budget, timeline, technical, scope) ==
    (2 * (budget + timeline + technical + scope) + 4) \div 8

OverallAlignment(budget, timeline, technical, scope) ==
    Trunc(budget + timeline + technical + scope, 4)

\* `mismatches = []` at the head of analyze_proposal_alignment: the list is a
\* fresh local of each call, whatever list the previous call built.
NewMismatchListShared(previous) == previous

NewMismatchList(previous) == << >>

\* RFPAlignment(...) built from the four sub-results
RFPAlignment(b, t, te, s, all, overall) ==
    [overall_alignment_score |-> overall,
     budget_alignment |-> b.score,
     timeline_alignment |-> t.score,
     technical_alignment |-> te.score,
     scope_alignment |-> s.score,
     mismatches |-> all,
     alignment_summary |-> generate_alignment_summary(overall, all)]

CombineAlignment(b, t, te, s, previous) ==
    RFPAlignment(b, t, te, s,
                 NewMismatchList(previous) \o b.mismatches \o t.mismatches
                     \o te.mismatches \o s.mismatches,
                 OverallAlignment(b.score, t.score, te.score, s.score))

\* `previous` is the list the detector built in its previous call
analyze_proposal_alignment(rfp, proposal, previous) ==
    CombineAlignment(analyze_budget_alignment(rfp, proposal),
                     analyze_timeline_alignment(rfp, proposal),
                     analyze_technical_alignment(rfp, proposal),
                     analyze_scope_alignment(rfp, proposal),
                     previous)

(***************************************************************************)
(* ProposalWorkflowService: the workflow state and its node functions.     *)
(* An optional value is << >> (None) or a one-element sequence.  The field *)
(* `node` of a state is not a key of ProposalAgentState: it names the node *)
(* of the graph of _build_workflow that was last run on the state.         *)
(***************************************************************************)
\* documents that can be uploaded; an uploaded record is never written again,
\* so a list of proposals is kept as the list of their ids
ProposalIds == {"p1", "p2"}

Document(p) ==
    IF p = "p1"
    THEN [id |-> "p1", title |-> "Proposal: Acme", budget |-> 180000,
          timeline_months |-> 8, content |-> PropTextAws]
    ELSE [id |-> "p2", title |-> "RFP: Portal", budget |-> 120000,
          timeline_months |-> 6, content |-> RfpTextCloud]

\* the document ids a client names as the RFP
RfpIds == {"p2"}

SessionIds == {"s1"}

Questions == {QuestionBudget, QuestionGoodbye}

\* texts the generation backend returns for a question
Answers == {"answer A"}

\* A generated text is a sequence of segments: prose without braces, a brace
\* group that is a syntactically valid JSON object, or a brace group that is not.
Scores(proposal_id, overall) ==
    [proposal_id |-> proposal_id, overall_score |-> overall, budget_score |-> 70,
     technical_score |-> 95, timeline_score |-> 88]

Prose == [kind |-> "prose", has_proposals |-> FALSE, is_list |-> FALSE, proposals |-> << >>]

Braces == [kind |-> "braces", has_proposals |-> FALSE, is_list |-> FALSE, proposals |-> << >>]

\* {"proposals": [...], ...}
Object(proposals) ==
    [kind |-> "object", has_proposals |-> TRUE, is_list |-> TRUE, proposals |-> proposals]

\* {"summary": "..."}
ObjectWithoutProposals ==
    [kind |-> "object", has_proposals |-> FALSE, is_list |-> FALSE, proposals |-> << >>]

\* {"proposals": "none"}
ObjectWithText ==
    [kind |-> "object", has_proposals |-> TRUE, is_list |-> FALSE, proposals |-> << >>]

\* texts the generation backend returns for the comparison prompt
RawTexts == {"json analysis", "prose analysis"}

ParseTexts ==
    RawTexts \cup
    {"json of two", "json of none", "json in prose", "json then braces", "braces then json",
     "two jsons", "braces only", "json without proposals", "json proposals text", "empty"}

RawText(name) ==
    CASE name = "json analysis" -> << Object(<< Scores("p1", 91) >>) >>
      [] name = "prose analysis" -> << Prose >>
      [] name = "json of two" -> << Object(<< Scores("p2", 77), Scores("p1", 91) >>) >>
      [] name = "json of none" -> << Object(<< >>) >>
      [] name = "json in prose" -> << Prose, Object(<< Scores("p1", 91) >>), Prose >>
      [] name = "json then braces" -> << Object(<< Scores("p1", 91) >>), Prose, Braces >>
      [] name = "braces then json" -> << Braces, Prose, Object(<< Scores("p1", 91) >>) >>
      [] name = "two jsons" -> << Object(<< Scores("p1", 91) >>), Object(<< Scores("p2", 77) >>) >>
      [] name = "braces only" -> << Prose, Braces >>
      [] name = "json without proposals" -> << ObjectWithoutProposals >>
      [] name = "json proposals text" -> << Prose, ObjectWithText >>
      [] OTHER -> << >>

\* settings.vector_search_k
vector_search_k == 3

MaxHistory == 1

MaxMessages == 6

\* outcomes of a call of the generation backend: it raises or returns a text
GenerationOutcomes(texts) ==
    {[ok |-> FALSE, text |-> ""]} \cup {[ok |-> TRUE, text |-> t] : t \in texts}

\* the top-k documents of an index, in the order the search returns them
Rankings(docs) ==
    {r \in UNION {[1..n -> {docs[i] : i \in 1..Len(docs)}] : n \in 0..Len(docs)} :
        /\ Len(r) = Min(vector_search_k, Len(docs))
        /\ \A i, j \in 1..Len(r) : i # j => r[i] # r[j]}

\* outcomes of vector_store.similarity_search: it raises or returns a ranking
SearchOutcomes(vector_store) ==
    {[ok |-> FALSE, docs |-> << >>]} \cup
    (IF vector_store = << >> THEN {}
     ELSE {[ok |-> TRUE, docs |-> r] : r \in Rankings(vector_store[1])})

create_initial_state(proposals, session_id) ==
    [proposals |-> proposals,
     vector_store |-> << >>,
     current_analysis |-> "",
     structured_analysis |-> << >>,
     user_question |-> << >>,
     conversation_history |-> << >>,
     continue_conversation |-> TRUE,
     error_message |-> "",
     session_id |-> session_id,
     rfp_document_id |-> << >>,
     rfp_data |-> << >>,
     node |-> "start"]

\* base_score = 85 + (i * 3) % 15 and the scores derived from it, i from 0
BaseScore(i) == 85 + ((i * 3) % 15)

FallbackEntryByRank(proposal, i) ==
    [proposal_id |-> "p1",
     overall_score |-> BaseScore(i),
     budget_score |-> Max(70, BaseScore(i) - 5),
     technical_score |-> Min(100, BaseScore(i) + 5),
     timeline_score |-> BaseScore(i)]

FallbackEntry(proposal, i) ==
    [proposal_id |-> proposal,
     overall_score |-> BaseScore(i),
     budget_score |-> Max(70, BaseScore(i) - 5),
     technical_score |-> Min(100, BaseScore(i) + 5),
     timeline_score |-> BaseScore(i)]

create_fallback_structure(proposals) ==
    [proposals |-> [k \in 1..Len(proposals) |-> FallbackEntry(proposals[k], k - 1)],
     executive_summary |->
         "Comprehensive analysis completed with competitive proposals received",
     recommendations |->
         << [rank |-> 1,
             proposal_id |-> IF Len(proposals) > 0 THEN proposals[1] ELSE "",
             reasoning |-> "Best overall value proposition and technical capability"] >>]

\* the segments that open or close a brace group
BraceGroups(text) == {i \in 1..Len(text) : text[i].kind # "prose"}

\* re.search(r'\{.*\}', analysis_text, re.DOTALL): the match is greedy, from the
\* first opening brace of the text to its last closing brace
JsonMatch(text) ==
    IF BraceGroups(text) = {} THEN << >>
    ELSE LET first == CHOOSE i \in BraceGroups(text) : \A j \in BraceGroups(text) : i <= j
             last_ == CHOOSE i \in BraceGroups(text) : \A j \in BraceGroups(text) : j <= i
         IN  SubSeq(text, first, last_)

\* json.loads raises JSONDecodeError unless the string is one JSON value
Decodes(json_str) == Len(json_str) = 1 /\ json_str[1].kind = "object"

\* the stored proposals all carry id, budget and timeline_months
\* (pdf_processor.py 116-126), so creating the fallback raises nothing
parse_structured_analysis(analysis_text, proposals) ==
    LET json_str == JsonMatch(RawText(analysis_text))
    IN  IF json_str # << >> /\ ~Decodes(json_str)
        THEN create_fallback_structure(proposals)
        ELSE IF json_str # << >> /\ json_str[1].has_proposals /\ json_str[1].is_list
        THEN [proposals |-> json_str[1].proposals,
              executive_summary |-> analysis_text,
              recommendations |-> << >>]
        ELSE create_fallback_structure(proposals)

\* Chroma.from_documents either raises or returns the index of the proposals
setup_node(state, index_ok) ==
    IF index_ok
    THEN [state EXCEPT !.vector_store = << state.proposals >>, !.error_message = "",
                       !.node = "setup"]
    ELSE [state EXCEPT !.error_message = "Setup failed", !.node = "setup"]

ComparisonPlaceholder == "Analysis could not be completed due to an error."

comparison_node(state, generation) ==
    IF generation.ok
    THEN [state EXCEPT !.current_analysis = generation.text,
                       !.structured_analysis =
                           << parse_structured_analysis(generation.text, state.proposals) >>,
                       !.error_message = "",
                       !.node = "comparison"]
    ELSE [state EXCEPT !.error_message = "Comparison failed",
                       !.current_analysis = ComparisonPlaceholder,
                       !.structured_analysis = << >>,
                       !.node = "comparison"]

\* `if state["error_message"]: return state` after the setup node
SetupFailedIgnored(state) == FALSE

SetupFailed(state) == state.error_message # ""

\* run_initial_analysis: the state returned, the nodes run and the backend calls
run_initial_analysis(proposals, session_id, rfp, llm_ready, embeddings_ready, index_ok, generation) ==
    LET initial_state ==
            [create_initial_state(proposals, session_id)
                EXCEPT !.rfp_document_id = rfp, !.rfp_data = rfp]
        after_setup == setup_node(initial_state, index_ok)
    IN  IF ~llm_ready \/ ~embeddings_ready
        THEN [state |-> [create_initial_state(proposals, session_id)
                            EXCEPT !.error_message = "API keys not configured"],
              nodes |-> << >>, index_calls |-> 0, llm_calls |-> 0]
        ELSE IF SetupFailed(after_setup)
        THEN [state |-> after_setup, nodes |-> << "setup" >>,
              index_calls |-> 1, llm_calls |-> 0]
        ELSE [state |-> comparison_node(after_setup, generation),
              nodes |-> << "setup", "comparison" >>,
              index_calls |-> 1, llm_calls |-> 1]

QuestionFailedSilently(state, why) == state

\* except Exception as e: state['error_message'] = f"Question processing failed: {str(e)}"
QuestionFailed(state, why) == [state EXCEPT !.error_message = why]

\* the retrieval half of _interactive_loop_node
Retrieve(state, search) ==
    IF state.vector_store = << >>
    THEN [state |-> QuestionFailed(state,
                        "Question processing failed: Vector store not initialized"),
          ok |-> FALSE, docs |-> << >>, search_calls |-> 0]
    ELSE IF ~search.ok
    THEN [state |-> QuestionFailed(state, "Question processing failed: search"),
          ok |-> FALSE, docs |-> << >>, search_calls |-> 1]
    ELSE [state |-> state, ok |-> TRUE, docs |-> search.docs, search_calls |-> 1]

ConversationEntry(state, generation, docs) ==
    [question |-> state.user_question,
     response |-> generation.text,
     relevant_proposals |-> [k \in 1..Len(docs) |-> Document(docs[k]).title]]

\* conversation_history.append(conversation_entry)
AppendEntryAlways(history, entry, ok) == Append(history, entry)

AppendEntry(history, entry, ok) == IF ok THEN Append(history, entry) ELSE history

RespondKeepingError(state, docs, generation) ==
    [state EXCEPT
        !.conversation_history =
            AppendEntry(@, ConversationEntry(state, generation, docs), generation.ok),
        !.error_message =
            IF generation.ok THEN @ ELSE "Question processing failed: generation"]

\* the generation half of _interactive_loop_node
Respond(state, docs, generation) ==
    [state EXCEPT
        !.conversation_history =
            AppendEntry(@, ConversationEntry(state, generation, docs), generation.ok),
        !.error_message =
            IF generation.ok THEN "" ELSE "Question processing failed: generation"]

interactive_loop_node(state, search, generation) ==
    LET r == Retrieve([state EXCEPT !.node = "interactive_loop"], search)
    IN  [state |-> IF r.ok THEN Respond(r.state, r.docs, generation) ELSE r.state,
         ok |-> r.ok /\ generation.ok,
         search_calls |-> r.search_calls,
         llm_calls |-> IF r.ok THEN 1 ELSE 0]

ask_question(state, question, search, generation) ==
    interactive_loop_node([state EXCEPT !.user_question = question], search, generation)

\* _decision_node: "end" or "continue"
ExitRequestedCaseSensitive(user_question) ==
    user_question # << >> /\ AnyKeywordIn(user_question, exit_keywords)

\* state['user_question'] and any(keyword in state['user_question'].lower() ...)
ExitRequested(user_question) ==
    user_question # << >> /\ AnyKeywordIn(Lower(user_question), exit_keywords)

decision_node(state) ==
    IF state.error_message # "" THEN "end"
    ELSE IF ~state.continue_conversation THEN "end"
    ELSE IF ExitRequested(state.user_question) THEN "end"
    ELSE "continue"

\* get_session_summary
get_session_summary(state) ==
    [session_id |-> state.session_id,
     proposals_count |-> Len(state.proposals),
     questions_asked |-> Len(state.conversation_history),
     analysis_completed |-> state.current_analysis # "",
     structured_analysis_available |-> state.structured_analysis # << >>,
     has_errors |-> state.error_message # "",
     error_message |-> state.error_message]

\* _end_node prints the session summary and returns the state
end_node(state) == [state EXCEPT !.node = "end"]

\* the session proposal an analysis entry names: the first prop of
\* state['proposals'] with prop['id'] == proposal_analysis.get('proposal_id')
OriginalProposalUnchecked(state, proposal_analysis) == << proposal_analysis.proposal_id >>

OriginalProposal(state, proposal_analysis) ==
    IF \E i \in 1..Len(state.proposals) : state.proposals[i] = proposal_analysis.proposal_id
    THEN << proposal_analysis.proposal_id >>
    ELSE << >>

\* the AnalysisResult-compatible structure of one entry; proposedBudget is the
\* formatted budget, or "$TBD" (<< >>) when the budget is not positive
AnalysisResult(state, proposal_analysis, original_proposal) ==
    [id |-> proposal_analysis.proposal_id,
     overallScore |-> proposal_analysis.overall_score,
     budgetScore |-> proposal_analysis.budget_score,
     technicalScore |-> proposal_analysis.technical_score,
     timelineScore |-> proposal_analysis.timeline_score,
     proposedBudget |-> IF Document(original_proposal).budget > 0
                        THEN << Document(original_proposal).budget >> ELSE << >>,
     timeline |-> Document(original_proposal).timeline_months,
     rfp_alignment |->
         IF state.rfp_data # << >>
         THEN << analyze_proposal_alignment(Document(state.rfp_data[1]),
                                            Document(original_proposal), << >>) >>
         ELSE << >>]

RECURSIVE AnalysisResults(_, _, _)
\* the loop over structured_data.get('proposals', []) from entry k on
AnalysisResults(state, proposals, k) ==
    IF k > Len(proposals) THEN << >>
    ELSE LET original_proposal == OriginalProposal(state, proposals[k])
         IN  (IF original_proposal = << >> THEN << >>
              ELSE << AnalysisResult(state, proposals[k], original_proposal[1]) >>)
             \o AnalysisResults(state, proposals, k + 1)

\* get_structured_analysis_results: None (<< >>) or the list of results
get_structured_analysis_results(state) ==
    IF state.structured_analysis = << >> THEN << >>
    ELSE << AnalysisResults(state, state.structured_analysis[1].proposals, 1) >>

(***************************************************************************)
(* The RFP optimization agent (rfp_optimization_agent.py)                  *)
(***************************************************************************)
\* texts of recommendations and priority actions
TextClarify == <<"c","l","a","r","i","f","y">>

TextExtend == <<"e","x","t","e","n","d">>

\* a text of 60 characters
TextLong == [i \in 1..60 |-> "x"]

RecommendationTexts == {TextClarify, TextExtend}

MaxRecommendations == 2

MaxPriorityActions == 2

DimensionRecommendations ==
    UNION {[1..n -> RecommendationTexts] : n \in 0..MaxRecommendations}

PriorityActions == UNION {[1..n -> RecommendationTexts] : n \in 0..MaxPriorityActions}

\* the part of RFPOptimizationAnalysis that the action items are derived from
Analyses ==
    [timeline_feasibility : [recommendations : DimensionRecommendations],
     requirements_clarity : [recommendations : {<< >>, <<TextClarify>>, <<TextLong>>}],
     cost_flexibility : [recommendations : {<< >>, <<TextExtend>>}],
     tco_analysis : [recommendations : {<< >>, <<TextClarify>>}],
     priority_actions : PriorityActions]

title_chars == 50

\* text[:n]
First(text, n) == SubSeq(text, 1, Min(n, Len(text)))

\* str.title() of the dimension names
Title(dimension_name) ==
    CASE dimension_name = "timeline" -> "Timeline"
      [] dimension_name = "requirements" -> "Requirements"
      [] dimension_name = "cost" -> "Cost"
      [] dimension_name = "tco" -> "Tco"

dimensionsByName == <<"cost", "requirements", "timeline", "tco">>

dimensions == <<"timeline", "requirements", "cost", "tco">>

DimensionAnalysis(analysis, dimension_name) ==
    CASE dimension_name = "timeline" -> analysis.timeline_feasibility
      [] dimension_name = "requirements" -> analysis.requirements_clarity
      [] dimension_name = "cost" -> analysis.cost_flexibility
      [] dimension_name = "tco" -> analysis.tco_analysis

RECURSIVE DimensionItems(_, _)
\* the (dimension, recommendation) pairs of dimensions[k..], in loop order
DimensionItems(analysis, k) ==
    IF k > Len(dimensions) THEN << >>
    ELSE LET recommendations == DimensionAnalysis(analysis, dimensions[k]).recommendations
         IN  [i \in 1..Len(recommendations) |->
                 [dimension |-> dimensions[k], recommendation |-> recommendations[i]]]
             \o DimensionItems(analysis, k + 1)

RFPActionItem(id, title, description, priority, dimension) ==
    [id |-> id, title |-> title, description |-> description, priority |-> priority,
     dimension |-> dimension, completed |-> FALSE, completed_at |-> << >>]

\* generate_action_items; uuid4 is a fresh identifier, the next of a counter
generate_action_items(analysis, ids_issued) ==
    LET short_term == DimensionItems(analysis, 1)
        immediate == analysis.priority_actions
    IN  [i \in 1..Len(short_term) |->
            RFPActionItem(ids_issued + i,
                          [label |-> Title(short_term[i].dimension), number |-> 0,
                           text |-> First(short_term[i].recommendation, title_chars)],
                          short_term[i].recommendation, "short_term",
                          short_term[i].dimension)]
        \o
        [i \in 1..Len(immediate) |->
            RFPActionItem(ids_issued + Len(short_term) + i,
                          [label |-> "Priority Action", number |-> i,
                           text |-> First(immediate[i], title_chars)],
                          immediate[i], "immediate", "general")]

max_retries == 3

\* what one attempt yields: llm.invoke or the parsing raises, the parsed
\* analysis is rejected by the RFPOptimizationAnalysis schema, or it is accepted
AttemptOutcomes == [1..max_retries -> {"raises", "invalid", "analysis"}]

\* the attempts that do not raise
Returning(outcomes) == {i \in 1..max_retries : outcomes[i] # "raises"}

\* analyze_rfp_document of the agent; its llm is built from the same key as
\* the workflow service's
analyze_rfp_document(llm_ready, outcomes, analysis) ==
    IF ~llm_ready THEN [ok |-> FALSE, attempts |-> 0, analysis |-> << >>]
    ELSE IF Returning(outcomes) = {}
    THEN [ok |-> FALSE, attempts |-> max_retries, analysis |-> << >>]
    ELSE LET attempt == CHOOSE i \in Returning(outcomes) :
                            \A j \in Returning(outcomes) : i <= j
         IN  IF outcomes[attempt] = "invalid"
             THEN [ok |-> FALSE, attempts |-> attempt, analysis |-> << >>]
             ELSE [ok |-> TRUE, attempts |-> attempt, analysis |-> << analysis >>]

(***************************************************************************)
(* State                                                                   *)
(***************************************************************************)
VARIABLES
    \* the mismatch detector and its caller
    rfp_data,          \* the RFP record the caller holds
    proposal_data,     \* the proposal record the caller holds
    alignment,         \* << >> or <<the RFPAlignment of the latest call on them>>
    first_alignment,   \* << >> or <<the RFPAlignment of the first call on them>>
    mismatches,        \* the mismatch list built by the latest call
    call_log,          \* the analyze calls made: "inputs" or "other", in order
    \* the workflow service and the routers
    llm,               \* workflow_service.llm is not None
    embeddings,        \* workflow_service.embeddings is not None
    uploaded_proposals,\* the ids of the dict uploaded_proposals, in insertion order
    analysis_sessions, \* session id -> << >> or <<[workflow_state, proposals_count]>>
    chat_sessions,     \* session id -> << >> or <<[workflow_state, messages]>>
    suspended,         \* the request handlers suspended at an await
    last,              \* the latest request step and what it did
    \* the RFP optimization router
    rfp_optimization_sessions, \* session id -> << >> or <<[analysis, rfp_document_id]>>
    rfp_action_items,  \* session id -> << >> or <<the list of RFPActionItem>>
    issued,            \* the number of uuid4 identifiers handed out to action items
    addressed,         \* the latest request addressed by id to these stores, and its reply
    \* a function of the services called on its own
    applied            \* the latest call: the function, its arguments, its result

dvars == <<rfp_data, proposal_data, alignment, first_alignment, mismatches, call_log>>

svars == <<llm, embeddings, uploaded_proposals, analysis_sessions, chat_sessions,
           suspended, last>>

ovars == <<rfp_optimization_sessions, rfp_action_items, issued, addressed>>

vars == <<dvars, svars, ovars, applied>>

\* what a request step did: the handler, its arguments, the HTTP status, the
\* nodes run, the calls made to the backends, the state the service returned,
\* the text answered and the status report
Event(op, route, sid, question, status, outcome, nodes, index_calls, search_calls, llm_calls, returned, response, report) ==
    [op |-> op, route |-> route, sid |-> sid, question |-> question,
     status |-> status, outcome |-> outcome, nodes |-> nodes,
     index_calls |-> index_calls, search_calls |-> search_calls,
     llm_calls |-> llm_calls, returned |-> returned, response |-> response,
     report |-> report]

NoEvent == Event("none", "", "", << >>, 0, "", << >>, 0, 0, 0, << >>, "", << >>)

\* a simple request that calls no node and no backend
Plain(op, route, sid, status, outcome) ==
    Event(op, route, sid, << >>, status, outcome, << >>, 0, 0, 0, << >>, "", << >>)

\* no function has been called on its own
NoCall == [function |-> "none"]

Request(op, session_id, document_id, item_id, status, attempts) ==
    [op |-> op, session_id |-> session_id, document_id |-> document_id,
     item_id |-> item_id, status |-> status, attempts |-> attempts]

NoRequest == Request("none", "", "", 0, 0, 0)

OptimizationIdle ==
    /\ rfp_optimization_sessions = [s \in SessionIds |-> << >>]
    /\ rfp_action_items = [s \in SessionIds |-> << >>]
    /\ issued = 0
    /\ addressed = NoRequest

StoresIdle ==
    /\ OptimizationIdle
    /\ llm = FALSE
    /\ embeddings = FALSE
    /\ uploaded_proposals = << >>
    /\ analysis_sessions = [s \in SessionIds |-> << >>]
    /\ chat_sessions = [s \in SessionIds |-> << >>]
    /\ suspended = {}
    /\ last = NoEvent

ServiceIdle == StoresIdle /\ applied = NoCall

DetectorIdle ==
    /\ rfp_data = [budget |-> 0, timeline_months |-> 0, content |-> << >>]
    /\ proposal_data = [budget |-> 0, timeline_months |-> 0, content |-> << >>]
    /\ alignment = << >>
    /\ first_alignment = << >>
    /\ mismatches = << >>
    /\ call_log = << >>

(***************************************************************************)
(* The mismatch detector applied to bounded inputs.                        *)
(***************************************************************************)
AnalyzeInit ==
    /\ rfp_data \in RfpRecords
    /\ proposal_data \in ProposalRecords
    /\ alignment = << >>
    /\ first_alignment = << >>
    /\ mismatches = << >>
    /\ call_log = << >>
    /\ ServiceIdle

Returned(result) ==
    /\ alignment' = << result >>
    /\ first_alignment' = IF first_alignment = << >> THEN << result >> ELSE first_alignment
    /\ mismatches' = result.mismatches

\* mismatch_detector.analyze_proposal_alignment(rfp_data, proposal_data)
AnalyzeInputs ==
    /\ Len(call_log) < MaxCalls
    /\ Returned(analyze_proposal_alignment(rfp_data, proposal_data, mismatches))
    /\ call_log' = Append(call_log, "inputs")
    /\ UNCHANGED <<rfp_data, proposal_data, svars, ovars, applied>>

\* a call of the same detector on another pair of records
AnalyzeOther ==
    /\ Len(call_log) < MaxCalls
    /\ \E pair \in OtherPairs :
          mismatches' = analyze_proposal_alignment(pair[1], pair[2], mismatches).mismatches
    /\ call_log' = Append(call_log, "other")
    /\ UNCHANGED <<rfp_data, proposal_data, alignment, first_alignment, svars, ovars,
                   applied>>

AnalyzeNext == AnalyzeInputs

AnalyzeSpec == AnalyzeInit /\ [][AnalyzeNext]_vars

\* Records with a budget or a timeline that is zero or not there.
MissingInit ==
    /\ rfp_data \in [budget : {Absent, 0, 120000}, timeline_months : {Absent, 0, 6},
                      content : {<< >>, RfpTextCloud}]
    /\ proposal_data \in [budget : {Absent, 0, 180000}, timeline_months : {Absent, 0, 8},
                           content : {<< >>, PropTextAws}]
    /\ alignment = << >>
    /\ first_alignment = << >>
    /\ mismatches = << >>
    /\ call_log = << >>
    /\ ServiceIdle

MissingNext == AnalyzeInputs

MissingSpec == MissingInit /\ [][MissingNext]_vars

\* Repeated calls on the same records with calls on other records in between.
RepeatInit ==
    /\ rfp_data \in RepeatedRfpRecords
    /\ proposal_data \in RepeatedProposalRecords
    /\ alignment = << >>
    /\ first_alignment = << >>
    /\ mismatches = << >>
    /\ call_log = << >>
    /\ ServiceIdle

RepeatNext == AnalyzeInputs \/ AnalyzeOther

RepeatSpec == RepeatInit /\ [][RepeatNext]_vars

(***************************************************************************)
(* The routers: one action per request handler.  A handler runs on the     *)
(* event loop without interruption from one await to the next; a handler   *)
(* waiting at an await is in `suspended`.                                  *)
(***************************************************************************)
Range(seq) == {seq[i] : i \in 1..Len(seq)}

Remove(seq, x) == SelectSeq(seq, LAMBDA y : y # x)

Task(op, route, sid, doc, question, docs) ==
    [op |-> op, route |-> route, sid |-> sid, doc |-> doc, question |-> question,
     docs |-> docs]

\* Whether a question handler yields the event loop between retrieval and
\* generation.  ask_analysis_question and send_message contain no await and
\* call the synchronous workflow_service.ask_question and llm.invoke.
AskAwaitsGeneration == TRUE

AskAwaits == FALSE

ServiceInit ==
    /\ OptimizationIdle
    /\ applied = NoCall
    /\ llm \in BOOLEAN
    /\ embeddings \in BOOLEAN
    /\ uploaded_proposals = << >>
    /\ analysis_sessions = [s \in SessionIds |-> << >>]
    /\ chat_sessions = [s \in SessionIds |-> << >>]
    /\ suspended = {}
    /\ last = NoEvent

Init == ServiceInit /\ DetectorIdle

\* upload_proposal up to `await file.read()`
UploadBegin(p) ==
    /\ p \notin Range(uploaded_proposals)
    /\ \A t \in suspended : t.doc # p
    /\ suspended' = suspended \cup {Task("upload", "proposals", "", p, << >>, << >>)}
    /\ UNCHANGED <<dvars, ovars, applied, llm, embeddings, uploaded_proposals, analysis_sessions,
                   chat_sessions, last>>

DeleteProposalFromSessions(p) ==
    /\ IF p \in Range(uploaded_proposals)
       THEN uploaded_proposals' = Remove(uploaded_proposals, p)
       ELSE UNCHANGED uploaded_proposals
    /\ analysis_sessions' =
           [s \in SessionIds |->
               IF analysis_sessions[s] = << >> THEN << >>
               ELSE << [analysis_sessions[s][1] EXCEPT
                           !.workflow_state.proposals = Remove(@, p)] >>]
    /\ UNCHANGED <<dvars, ovars, applied, llm, embeddings, chat_sessions, suspended, last>>

\* delete_proposal
DeleteProposal(p) ==
    /\ IF p \in Range(uploaded_proposals)
       THEN uploaded_proposals' = Remove(uploaded_proposals, p)
       ELSE UNCHANGED uploaded_proposals
    /\ UNCHANGED <<dvars, ovars, applied, llm, embeddings, analysis_sessions, chat_sessions, suspended,
                   last>>

\* the session data start_analysis stores
AnalysisSession(workflow_state, proposals_count) ==
    [workflow_state |-> workflow_state, proposals_count |-> proposals_count]

proposals_list_without_rfp(uploaded, rfp) ==
    IF rfp = << >> THEN uploaded ELSE Remove(uploaded, rfp[1])

\* proposals_list = list(uploaded_proposals.values()), whatever the RFP is
proposals_list(uploaded, rfp) == uploaded

\* start_analysis
StartAnalysis(sid, rfp, index_ok, generation) ==
    /\ IF uploaded_proposals = << >>
       THEN /\ last' = Plain("start", "analysis", sid, 400, "no proposals")
            /\ UNCHANGED analysis_sessions
       ELSE IF rfp # << >> /\ rfp[1] \notin Range(uploaded_proposals)
       THEN /\ last' = Plain("start", "analysis", sid, 404, "rfp not found")
            /\ UNCHANGED analysis_sessions
       ELSE LET r == run_initial_analysis(proposals_list(uploaded_proposals, rfp), sid,
                                          rfp, llm, embeddings, index_ok, generation)
            IN  IF r.state.error_message # ""
                THEN /\ last' = Event("start", "analysis", sid, << >>, 500,
                                      r.state.error_message, r.nodes, r.index_calls,
                                      0, r.llm_calls, << r.state >>, "", << >>)
                     /\ UNCHANGED analysis_sessions
                ELSE /\ last' = Event("start", "analysis", sid, << >>, 200, "started",
                                      r.nodes, r.index_calls, 0, r.llm_calls,
                                      << r.state >>, r.state.current_analysis, << >>)
                     /\ analysis_sessions' =
                            [analysis_sessions EXCEPT ![sid] =
                                << AnalysisSession(r.state,
                                                   Len(proposals_list(uploaded_proposals, rfp))) >>]
    /\ UNCHANGED <<dvars, ovars, applied, llm, embeddings, uploaded_proposals, chat_sessions, suspended>>

StatusReport(session_data) ==
    [proposals_count |-> session_data.proposals_count,
     analysis_completed |-> session_data.workflow_state.current_analysis # "",
     questions_asked |-> Len(session_data.workflow_state.conversation_history),
     has_errors |-> session_data.workflow_state.error_message # "",
     error_message |-> session_data.workflow_state.error_message]

\* get_analysis_status
GetAnalysisStatus(sid) ==
    /\ IF analysis_sessions[sid] = << >>
       THEN last' = Plain("status", "analysis", sid, 404, "not found")
       ELSE last' = Event("status", "analysis", sid, << >>, 200, "report", << >>,
                          0, 0, 0, << >>, "", << StatusReport(analysis_sessions[sid][1]) >>)
    /\ UNCHANGED <<dvars, ovars, applied, llm, embeddings, uploaded_proposals, analysis_sessions,
                   chat_sessions, suspended>>

\* delete_analysis_session: no answer other than success
DeleteAnalysisSession(sid) ==
    /\ analysis_sessions' = [analysis_sessions EXCEPT ![sid] = << >>]
    /\ last' = Plain("delete_session", "analysis", sid, 200, "deleted")
    /\ UNCHANGED <<dvars, ovars, applied, llm, embeddings, uploaded_proposals, chat_sessions,
                   suspended>>

LatestResponse(state) ==
    state.conversation_history[Len(state.conversation_history)].response

\* the event of a question handler that ran ask_question to its return
Asked(route, sid, question, status, outcome, r, response) ==
    Event("ask", route, sid, question, status, outcome, << "interactive_loop" >>,
          0, r.search_calls, r.llm_calls, << r.state >>, response, << >>)

\* the event and the task of a question handler that yields before generation
AskSuspends(route, sid, question, found) ==
    /\ suspended' = suspended \cup {Task("ask", route, sid, "", question, found.docs)}
    /\ last' = Event("ask", route, sid, question, 0, "generating",
                     << "interactive_loop" >>, 0, 1, 0, << found.state >>, "", << >>)

\* the bound on the histories explored: an ask that would append needs room
HistoryHasRoom(state, r) == Len(state.conversation_history) < MaxHistory \/ ~r.ok

\* ask_analysis_question
AskAnalysisQuestion(sid, question, generation) ==
    /\ IF analysis_sessions[sid] = << >>
       THEN /\ last' = Plain("ask", "analysis", sid, 404, "not found")
            /\ UNCHANGED <<analysis_sessions, suspended>>
       ELSE LET state == analysis_sessions[sid][1].workflow_state
            IN  \E search \in SearchOutcomes(state.vector_store) :
                     LET found == Retrieve([state EXCEPT !.user_question = question,
                                                         !.node = "interactive_loop"],
                                           search)
                         r == ask_question(state, question, search, generation)
                     IN  /\ HistoryHasRoom(state, r)
                         /\ IF AskAwaits /\ found.ok
                            THEN /\ analysis_sessions' =
                                       [analysis_sessions EXCEPT
                                           ![sid][1].workflow_state = found.state]
                                 /\ AskSuspends("analysis", sid, question, found)
                            ELSE /\ analysis_sessions' =
                                       [analysis_sessions EXCEPT
                                           ![sid][1].workflow_state = r.state]
                                 /\ UNCHANGED suspended
                                 /\ last' =
                                       IF r.state.conversation_history # << >>
                                       THEN Asked("analysis", sid, question, 200,
                                                  IF r.ok THEN "answered" ELSE "failed",
                                                  r, LatestResponse(r.state))
                                       ELSE Asked("analysis", sid, question, 500,
                                                  "failed", r, "Failed to process question")
    /\ UNCHANGED <<dvars, ovars, applied, llm, embeddings, uploaded_proposals, chat_sessions>>

ChatMessage(type, content) == [type |-> type, content |-> content]

Greeting == "Hello! I'm your RFP/RFQ Chat Assistant."

Apology == "I'm sorry, I couldn't process your question. Please try again."

\* send_message, from "Create response message" to the return
StoreMessages(sessions, sid, message, response_content) ==
    LET present == IF sessions[sid] = << >>
                   THEN [sessions EXCEPT
                            ![sid] = << [workflow_state |-> << >>, messages |-> << >>] >>]
                   ELSE sessions
    IN  [present EXCEPT ![sid][1].messages =
            @ \o << ChatMessage("user", message),
                    ChatMessage("assistant", response_content) >>]

\* send_message
SendMessage(sid, message, index_ok, comparison, generation) ==
    /\ IF chat_sessions[sid] = << >>
       THEN IF uploaded_proposals = << >>
            THEN /\ chat_sessions' = StoreMessages(chat_sessions, sid, message, Greeting)
                 /\ last' = Event("start", "chat", sid, message, 200, "greeting",
                                  << >>, 0, 0, 0, << >>, Greeting, << >>)
                 /\ UNCHANGED suspended
            ELSE LET r == run_initial_analysis(uploaded_proposals, sid, << >>, llm,
                                               embeddings, index_ok, comparison)
                     created == [chat_sessions EXCEPT
                                    ![sid] = << [workflow_state |-> << r.state >>,
                                                 messages |-> << >>] >>]
                 IN  /\ chat_sessions' = StoreMessages(created, sid, message, Greeting)
                     /\ last' = Event("start", "chat", sid, message, 200, "started",
                                      r.nodes, r.index_calls, 0, r.llm_calls,
                                      << r.state >>, Greeting, << >>)
                     /\ UNCHANGED suspended
       ELSE /\ Len(chat_sessions[sid][1].messages) + 2 <= MaxMessages
            /\ IF chat_sessions[sid][1].workflow_state = << >>
               THEN /\ last' = Event("ask", "chat", sid, message, 500,
                                     "Failed to process chat message", << >>, 0, 0, 0,
                                     << >>, "", << >>)
                    /\ UNCHANGED <<chat_sessions, suspended>>
               ELSE LET state == chat_sessions[sid][1].workflow_state[1]
                    IN  \E search \in SearchOutcomes(state.vector_store) :
                             LET found == Retrieve([state EXCEPT
                                                       !.user_question = message,
                                                       !.node = "interactive_loop"],
                                                   search)
                                 r == ask_question(state, message, search, generation)
                                 response_content ==
                                     IF r.state.conversation_history # << >>
                                     THEN LatestResponse(r.state)
                                     ELSE Apology
                                 updated == [chat_sessions EXCEPT
                                               ![sid][1].workflow_state = << r.state >>]
                             IN  /\ HistoryHasRoom(state, r)
                                 /\ IF AskAwaits /\ found.ok
                                    THEN /\ chat_sessions' =
                                               [chat_sessions EXCEPT
                                                  ![sid][1].workflow_state = << found.state >>]
                                         /\ AskSuspends("chat", sid, message, found)
                                    ELSE /\ chat_sessions' =
                                               StoreMessages(updated, sid, message,
                                                             response_content)
                                         /\ UNCHANGED suspended
                                         /\ last' = Asked("chat", sid, message, 200,
                                                          IF r.ok THEN "answered"
                                                          ELSE "failed",
                                                          r, response_content)
    /\ UNCHANGED <<dvars, ovars, applied, llm, embeddings, uploaded_proposals, analysis_sessions>>

\* the state of the session a suspended question handler works on
TaskState(t) ==
    IF t.route = "analysis"
    THEN analysis_sessions[t.sid][1].workflow_state
    ELSE chat_sessions[t.sid][1].workflow_state[1]

\* a suspended handler continues after its await: upload_proposal from
\* `content = await file.read()` to its return; a question handler from the
\* generation call to its return
Resume(t, generation) ==
    /\ t \in suspended
    /\ suspended' = suspended \ {t}
    /\ IF t.op = "upload"
       THEN /\ uploaded_proposals' = Append(uploaded_proposals, t.doc)
            /\ UNCHANGED <<analysis_sessions, chat_sessions, last>>
       ELSE LET state == Respond(TaskState(t), t.docs, generation)
                result == [state |-> state, ok |-> generation.ok,
                           search_calls |-> 0, llm_calls |-> 1]
                response_content == IF state.conversation_history # << >>
                                    THEN LatestResponse(state) ELSE Apology
            IN  /\ last' = Asked(t.route, t.sid, t.question, 200,
                                 IF generation.ok THEN "answered" ELSE "failed",
                                 result, response_content)
                /\ UNCHANGED uploaded_proposals
                /\ IF t.route = "analysis"
                   THEN /\ analysis_sessions' =
                              [analysis_sessions EXCEPT
                                  ![t.sid][1].workflow_state = state]
                        /\ UNCHANGED chat_sessions
                   ELSE /\ chat_sessions' =
                              StoreMessages([chat_sessions EXCEPT
                                                ![t.sid][1].workflow_state = << state >>],
                                            t.sid, t.question, response_content)
                        /\ UNCHANGED analysis_sessions
    /\ UNCHANGED <<dvars, ovars, applied, llm, embeddings>>

Upload == \E p \in ProposalIds : UploadBegin(p)

Continue ==
    \E t \in suspended, generation \in GenerationOutcomes(Answers) :
        Resume(t, generation)

Delete == \E p \in ProposalIds : DeleteProposal(p)

Start ==
    \E sid \in SessionIds, rfp \in {<< >>} \cup {<< p >> : p \in RfpIds},
       index_ok \in BOOLEAN, generation \in GenerationOutcomes(RawTexts) :
        StartAnalysis(sid, rfp, index_ok, generation)

Status == \E sid \in SessionIds : GetAnalysisStatus(sid)

DeleteSession == \E sid \in SessionIds : DeleteAnalysisSession(sid)

Ask ==
    \E sid \in SessionIds, question \in Questions,
       generation \in GenerationOutcomes(Answers) :
        AskAnalysisQuestion(sid, question, generation)

Chat ==
    \E sid \in SessionIds, message \in Questions, index_ok \in BOOLEAN,
       comparison \in GenerationOutcomes(RawTexts),
       generation \in GenerationOutcomes(Answers) :
        SendMessage(sid, message, index_ok, comparison, generation)

\* the proposal store and the analysis router
AnalysisNext == Upload \/ Continue \/ Delete \/ Start \/ Status \/ Ask \/ DeleteSession

AnalysisSpec == Init /\ [][AnalysisNext]_vars

\* the proposal store and the chat router
ChatNext == Upload \/ Continue \/ Delete \/ Chat

ChatSpec == Init /\ [][ChatNext]_vars

\* Both routers answering questions on sessions that were started on one
\* uploaded proposal, while further uploads are in progress.
AskInit ==
    LET started == run_initial_analysis(<< "p1" >>, "s1", << >>, TRUE, TRUE, TRUE,
                                        [ok |-> TRUE, text |-> "json analysis"])
    IN  /\ llm = TRUE
        /\ embeddings = TRUE
        /\ uploaded_proposals = << "p1" >>
        /\ analysis_sessions = [s \in SessionIds |-> << AnalysisSession(started.state, 1) >>]
        /\ chat_sessions =
              StoreMessages([s \in SessionIds |->
                                << [workflow_state |-> << started.state >>,
                                    messages |-> << >>] >>],
                            "s1", QuestionBudget, Greeting)
        /\ suspended = {}
        /\ last = NoEvent
        /\ DetectorIdle
        /\ OptimizationIdle
        /\ applied = NoCall

AskNext == Upload \/ Continue \/ Ask \/ Chat

AskSpec == AskInit /\ [][AskNext]_vars

(***************************************************************************)
(* The RFP optimization router (routers/rfp_optimization.py)               *)
(***************************************************************************)
MaxIds == 4

OptimizationAnalyses ==
    { [timeline_feasibility |-> [recommendations |-> <<TextClarify>>],
       requirements_clarity |-> [recommendations |-> << >>],
       cost_flexibility |-> [recommendations |-> << >>],
       tco_analysis |-> [recommendations |-> << >>],
       priority_actions |-> <<TextExtend>>],
      [timeline_feasibility |-> [recommendations |-> << >>],
       requirements_clarity |-> [recommendations |-> <<TextLong>>],
       cost_flexibility |-> [recommendations |-> << >>],
       tco_analysis |-> [recommendations |-> << >>],
       priority_actions |-> << >>] }

\* the router's analyze_rfp_document: its own HTTPException(404) is raised
\* inside the try block whose `except Exception` answers 500
AnalyzeRfp(sid, rfp_document_id, outcomes, analysis) ==
    /\ IF rfp_document_id \notin Range(uploaded_proposals)
       THEN /\ addressed' = Request("analyze_rfp", sid, rfp_document_id, 0, 500, 0)
            /\ UNCHANGED <<rfp_optimization_sessions, rfp_action_items, issued>>
       ELSE LET r == analyze_rfp_document(llm, outcomes, analysis)
            IN  IF ~r.ok
                THEN /\ addressed' =
                            Request("analyze_rfp", sid, rfp_document_id, 0, 500, r.attempts)
                     /\ UNCHANGED <<rfp_optimization_sessions, rfp_action_items, issued>>
                ELSE LET action_items == generate_action_items(r.analysis[1], issued)
                     IN  /\ issued + Len(action_items) <= MaxIds
                         /\ rfp_optimization_sessions' =
                                [rfp_optimization_sessions EXCEPT ![sid] =
                                    << [analysis |-> r.analysis[1],
                                        rfp_document_id |-> rfp_document_id] >>]
                         /\ rfp_action_items' =
                                [rfp_action_items EXCEPT ![sid] = << action_items >>]
                         /\ issued' = issued + Len(action_items)
                         /\ addressed' = Request("analyze_rfp", sid, rfp_document_id, 0,
                                                 200, r.attempts)
    /\ UNCHANGED <<dvars, svars, applied>>

\* get_rfp_analysis
GetRfpAnalysis(sid) ==
    /\ addressed' = Request("get_rfp_analysis", sid, "", 0,
                            IF rfp_optimization_sessions[sid] = << >> THEN 404 ELSE 200, 0)
    /\ UNCHANGED <<dvars, svars, applied, rfp_optimization_sessions, rfp_action_items, issued>>

\* get_action_items
GetActionItems(sid) ==
    /\ addressed' = Request("get_action_items", sid, "", 0,
                            IF rfp_action_items[sid] = << >> THEN 404 ELSE 200, 0)
    /\ UNCHANGED <<dvars, svars, applied, rfp_optimization_sessions, rfp_action_items, issued>>

Now == << "now" >>

CompletedAtNeverCleared(completed) == Now

\* completed_at = datetime.now() if update.completed else None
CompletedAt(completed) == IF completed THEN Now ELSE << >>

\* update_action_item
UpdateActionItem(sid, item_id, completed) ==
    /\ IF rfp_action_items[sid] = << >>
       THEN /\ addressed' = Request("update_action_item", sid, "", item_id, 404, 0)
            /\ UNCHANGED rfp_action_items
       ELSE LET action_items == rfp_action_items[sid][1]
                found == {i \in 1..Len(action_items) : action_items[i].id = item_id}
            IN  IF found = {}
                THEN /\ addressed' = Request("update_action_item", sid, "", item_id, 404, 0)
                     /\ UNCHANGED rfp_action_items
                ELSE LET i == CHOOSE i \in found : \A j \in found : i <= j
                     IN  /\ rfp_action_items' =
                                [rfp_action_items EXCEPT ![sid] =
                                    << [action_items EXCEPT
                                           ![i].completed = completed,
                                           ![i].completed_at = CompletedAt(completed)] >>]
                         /\ addressed' =
                                Request("update_action_item", sid, "", item_id, 200, 0)
    /\ UNCHANGED <<dvars, svars, applied, rfp_optimization_sessions, issued>>

Analyze ==
    \E sid \in SessionIds, rfp_document_id \in ProposalIds, outcomes \in AttemptOutcomes,
       analysis \in OptimizationAnalyses :
        AnalyzeRfp(sid, rfp_document_id, outcomes, analysis)

GetAnalysis == \E sid \in SessionIds : GetRfpAnalysis(sid)

GetItems == \E sid \in SessionIds : GetActionItems(sid)

UpdateItem ==
    \E sid \in SessionIds, item_id \in 1..MaxIds, completed \in BOOLEAN :
        UpdateActionItem(sid, item_id, completed)

OptimizationNext ==
    Upload \/ Continue \/ Delete \/ Analyze \/ GetAnalysis \/ GetItems \/ UpdateItem
        \/ DeleteSession

\* the embeddings backend plays no part in these requests
OptimizationInit == Init /\ embeddings = llm

OptimizationSpec == OptimizationInit /\ [][OptimizationNext]_vars

(***************************************************************************)
(* The decision node applied to bounded states.                            *)
(***************************************************************************)
DecisionQuestions ==
    {<< >>, QuestionBudget, QuestionGoodbye, QuestionRecommend, QuestionStop, QuestionBye,
     QuestionQuit, QuestionExit, QuestionCheapest, QuestionRisks}

DecisionErrors == {"", "Comparison failed", "Error processing question"}

DecisionStates ==
    [error_message : DecisionErrors, continue_conversation : BOOLEAN,
     user_question : DecisionQuestions]

DecisionInit ==
    /\ applied \in [function : {"none"}, arguments : DecisionStates, result : {"none"}]
    /\ StoresIdle
    /\ DetectorIdle

Decide ==
    /\ applied.function = "none"
    /\ applied' = [function |-> "decision_node", arguments |-> applied.arguments,
                   result |-> decision_node(applied.arguments)]
    /\ UNCHANGED <<dvars, svars, ovars>>

DecisionNext == Decide

DecisionSpec == DecisionInit /\ [][DecisionNext]_vars

(***************************************************************************)
(* The agent's analysis applied to bounded sequences of attempt outcomes.  *)
(***************************************************************************)
\* how many answers the generation backend has ready, more than are asked for
MaxAttempts == 4

AvailableOutcomes == [1..MaxAttempts -> {"raises", "invalid", "analysis"}]

RetryInit ==
    /\ applied \in [function : {"none"},
                    arguments : [llm_ready : BOOLEAN, outcomes : AvailableOutcomes],
                    result : {<< >>}]
    /\ StoresIdle
    /\ DetectorIdle

AnalyzeDocument ==
    /\ applied.function = "none"
    /\ \E analysis \in OptimizationAnalyses :
           applied' = [function |-> "analyze_rfp_document", arguments |-> applied.arguments,
                       result |-> << analyze_rfp_document(applied.arguments.llm_ready,
                                                          applied.arguments.outcomes,
                                                          analysis) >>]
    /\ UNCHANGED <<dvars, svars, ovars>>

RetryNext == AnalyzeDocument

RetrySpec == RetryInit /\ [][RetryNext]_vars

(***************************************************************************)
(* The derivation of action items applied to bounded analyses.             *)
(***************************************************************************)
DeriveInit ==
    /\ applied \in [function : {"none"}, arguments : Analyses, result : {<< >>}]
    /\ StoresIdle
    /\ DetectorIdle

Derive ==
    /\ applied.function = "none"
    /\ applied' = [function |-> "generate_action_items", arguments |-> applied.arguments,
                   result |-> generate_action_items(applied.arguments, 0)]
    /\ UNCHANGED <<dvars, svars, ovars>>

DeriveNext == Derive

DeriveSpec == DeriveInit /\ [][DeriveNext]_vars

(***************************************************************************)
(* The parser of the comparison text applied to bounded texts and lists.   *)
(***************************************************************************)
MaxProposals == 2

ProposalLists == UNION {[1..n -> ProposalIds] : n \in 0..MaxProposals}

ParseInit ==
    /\ applied \in [function : {"none"},
                    arguments : [analysis_text : ParseTexts, proposals : ProposalLists],
                    result : {<< >>}]
    /\ StoresIdle
    /\ DetectorIdle

Parse ==
    /\ applied.function = "none"
    /\ applied' = [function |-> "parse_structured_analysis",
                   arguments |-> applied.arguments,
                   result |-> << parse_structured_analysis(applied.arguments.analysis_text,
                                                           applied.arguments.proposals) >>]
    /\ UNCHANGED <<dvars, svars, ovars>>

ParseNext == Parse

ParseSpec == ParseInit /\ [][ParseNext]_vars

(***************************************************************************)
(* The structured results built from bounded session states.               *)
(***************************************************************************)
MaxEntries == 2

\* entries of a generated analysis; the last one names no uploaded proposal
AnalysisEntries == {Scores("p1", 91), Scores("p2", 77), Scores("proposal_id_here", 85)}

AnalysisLists == UNION {[1..n -> AnalysisEntries] : n \in 0..MaxEntries}

\* the proposals of a session are distinct records of the collection, and
\* the RFP of a session is one of them (analysis.py 48-56)
ResultStates ==
    {state \in [proposals : ProposalLists,
                structured_analysis :
                    {<< >>} \cup {<< [proposals |-> entries, executive_summary |-> "",
                                      recommendations |-> << >>] >> :
                                      entries \in AnalysisLists},
                rfp_data : {<< >>} \cup {<< p >> : p \in RfpIds}] :
        /\ \A i, j \in 1..Len(state.proposals) :
               i # j => state.proposals[i] # state.proposals[j]
        /\ state.rfp_data # << >> => state.rfp_data[1] \in Range(state.proposals)}

ResultsInit ==
    /\ applied \in [function : {"none"}, arguments : ResultStates, result : {<< >>}]
    /\ StoresIdle
    /\ DetectorIdle

GetResults ==
    /\ applied.function = "none"
    /\ applied' = [function |-> "get_structured_analysis_results",
                   arguments |-> applied.arguments,
                   result |-> get_structured_analysis_results(applied.arguments)]
    /\ UNCHANGED <<dvars, svars, ovars>>

ResultsNext == GetResults

ResultsSpec == ResultsInit /\ [][ResultsNext]_vars

(***************************************************************************)
(* Properties of the sessions                                              *)
(***************************************************************************)
HistoryOf(session) ==
    IF session = << >> THEN << >> ELSE session[1].conversation_history

AnalysisState(sessions, sid) ==
    IF sessions[sid] = << >> THEN << >> ELSE << sessions[sid][1].workflow_state >>

ChatState(sessions, sid) ==
    IF sessions[sid] = << >> THEN << >> ELSE sessions[sid][1].workflow_state

\* this step is a question handler running workflow_service.ask_question
AskStep(route, sid) ==
    /\ last' # last
    /\ last'.op = "ask"
    /\ last'.route = route
    /\ last'.sid = sid
    /\ last'.nodes = << "interactive_loop" >>

\* this step is a handler that creates the session anew
StartStep(route, sid) ==
    /\ last' # last
    /\ last'.op = "start"
    /\ last'.route = route
    /\ last'.sid = sid

Grows(before, after, by) ==
    Len(HistoryOf(after)) = Len(HistoryOf(before)) + by

\* C1: on one chat session, every ask in which retrieval and generation both
\* return lengthens conversation_history by exactly one entry, every ask that
\* fails leaves its length as it was, and no step other than a new start of
\* the session shortens it.
C1_HistoryGrowsByOnePerSuccess ==
    [][\A sid \in SessionIds :
          LET before == ChatState(chat_sessions, sid)
              after == ChatState(chat_sessions', sid)
          IN  IF AskStep("chat", sid)
              THEN IF last'.search_calls = 1 /\ last'.llm_calls = 1
                      /\ last'.outcome = "answered"
                   THEN Grows(before, after, 1)
                   ELSE Grows(before, after, 0)
              ELSE StartStep("chat", sid) \/ Len(HistoryOf(after)) >= Len(HistoryOf(before))
      ]_vars

\* a successful ask that came after a failed one on the same session
C1_Witness ==
    /\ last.op = "ask"
    /\ last.outcome = "answered"
    /\ Len(HistoryOf(ChatState(chat_sessions, "s1"))) = 1
    /\ Len(chat_sessions["s1"][1].messages) = 6

AsksToLeave(state) ==
    /\ state.user_question # << >>
    /\ AnyKeywordIn(Lower(state.user_question), exit_keywords)

\* C2: when the latest question asked on a session contains an exit keyword,
\* the status query finds the session ended, that is, past the end node.
C2_StatusReportsEndedAfterExit ==
    \A sid \in SessionIds :
        (/\ last.op = "status"
         /\ last.sid = sid
         /\ last.status = 200
         /\ AsksToLeave(analysis_sessions[sid][1].workflow_state))
        => analysis_sessions[sid][1].workflow_state.node = "end"

ComparisonFailed(event) ==
    /\ event.op = "start"
    /\ event.nodes = << "setup", "comparison" >>
    /\ event.returned # << >>
    /\ event.returned[1].error_message = "Comparison failed"

\* C3: a start whose comparison fails records the failure and the placeholder
\* and keeps the session, in the state the start returned.
C3_FailedComparisonKeepsSession ==
    ComparisonFailed(last)
    => /\ last.returned[1].current_analysis = ComparisonPlaceholder
       /\ AnalysisState(analysis_sessions, last.sid) = last.returned

\* an index build was attempted and left no index
IndexingFailed(event) ==
    /\ event.op = "start"
    /\ event.index_calls = 1
    /\ event.returned # << >>
    /\ event.returned[1].vector_store = << >>

\* C4: a start whose index build fails returns with error_message set, runs
\* the setup node only, makes no generation call, and leaves current_analysis
\* and structured_analysis at their initial empty values.
C4_IndexFailureSkipsComparison ==
    IndexingFailed(last)
    => /\ last.returned[1].error_message # ""
       /\ last.nodes = << "setup" >>
       /\ last.llm_calls = 0
       /\ last.returned[1].current_analysis = ""
       /\ last.returned[1].structured_analysis = << >>

C4_Witness ==
    /\ IndexingFailed(last)
    /\ last.status = 500
    /\ Len(last.returned[1].proposals) = 2

\* the start ran on an empty collection or without a backend
StartedWithout(event) ==
    /\ event.op = "start"
    /\ \/ event.outcome \in {"greeting", "no proposals"}
       \/ ~llm
       \/ ~embeddings

ErrorReported(event) ==
    \/ event.status >= 400
    \/ event.returned # << >> /\ event.returned[1].error_message # ""

\* C5: a start on an empty proposal collection, or without the generation or
\* the retrieval backend, reports an error and runs neither setup nor
\* comparison.
C5_StartFailsFast ==
    StartedWithout(last)
    => /\ ErrorReported(last)
       /\ last.nodes = << >>
       /\ last.index_calls = 0
       /\ last.llm_calls = 0

\* C6: an ask on a session the decision step would end (error set, continue
\* flag false, or exit keyword seen) runs no retrieval, no generation and
\* appends no conversation entry.
C6_EndedSessionRunsNothing ==
    [][\A sid \in SessionIds :
          (/\ AskStep("analysis", sid)
           /\ analysis_sessions[sid] # << >>
           /\ decision_node(analysis_sessions[sid][1].workflow_state) = "end")
          => /\ last'.search_calls = 0
             /\ last'.llm_calls = 0
             /\ Grows(AnalysisState(analysis_sessions, sid),
                      AnalysisState(analysis_sessions', sid), 0)
      ]_vars

\* the question handlers in flight on a session
InFlight(tasks, sid) == {t \in tasks : t.op = "ask" /\ t.sid = sid}

\* the entry a completed question handler appended is the entry of its own
\* question, on top of the history it found
AppendedOwnEntry(before, after, question) ==
    /\ Len(HistoryOf(after)) = Len(HistoryOf(before)) + 1
    /\ SubSeq(HistoryOf(after), 1, Len(HistoryOf(before))) = HistoryOf(before)
    /\ HistoryOf(after)[Len(HistoryOf(after))].question = question

SubScoreSum(a) ==
    a.budget_alignment + a.timeline_alignment + a.technical_alignment + a.scope_alignment

BudgetMismatches(a) ==
    {k \in 1..Len(a.mismatches) : a.mismatches[k].type = "budget"}

\* C8: for every RFP/proposal pair the overall alignment score is
\* floor((budget + timeline + technical + scope) / 4) of the four sub-scores
\* returned in the same alignment.
C8_OverallIsFloorOfMean ==
    alignment # << >> =>
        /\ 4 * alignment[1].overall_alignment_score <= SubScoreSum(alignment[1])
        /\ SubScoreSum(alignment[1]) < 4 * alignment[1].overall_alignment_score + 4

\* an alignment whose mean has a fraction of at least one half
C8_Witness ==
    /\ alignment # << >>
    /\ SubScoreSum(alignment[1]) % 4 >= 2

\* C9: with both budgets non-zero and 0.5 <= proposal.budget / rfp.budget <= 1.2
\* the budget sub-score is 100 and the alignment has no budget mismatch.
C9_BudgetInBandIsAligned ==
    ( /\ alignment # << >>
      /\ rfp_data.budget # 0
      /\ proposal_data.budget # 0
      /\ 10 * proposal_data.budget >= 5 * rfp_data.budget
      /\ 10 * proposal_data.budget <= 12 * rfp_data.budget )
    => /\ alignment[1].budget_alignment = 100
       /\ BudgetMismatches(alignment[1]) = {}

\* a pair analysed whose ratio is exactly 1.2
C9_Witness ==
    /\ alignment # << >>
    /\ rfp_data.budget # 0
    /\ 10 * proposal_data.budget = 12 * rfp_data.budget

TypedMismatches(a, type) ==
    {k \in 1..Len(a.mismatches) : a.mismatches[k].type = type}

\* C11: for the RFP with budget 120000 and timeline 6 and the proposal with
\* budget 180000 and timeline 8 the alignment has exactly one budget mismatch,
\* of severity medium, with budget score 50, and exactly one timeline
\* mismatch, of severity medium, with timeline score 74.
C11_ScenarioScores ==
    ( /\ alignment # << >>
      /\ rfp_data.budget = 120000 /\ rfp_data.timeline_months = 6
      /\ proposal_data.budget = 180000 /\ proposal_data.timeline_months = 8 )
    => /\ Cardinality(TypedMismatches(alignment[1], "budget")) = 1
       /\ \A k \in TypedMismatches(alignment[1], "budget") :
              alignment[1].mismatches[k].severity = "medium"
       /\ alignment[1].budget_alignment = 50
       /\ Cardinality(TypedMismatches(alignment[1], "timeline")) = 1
       /\ \A k \in TypedMismatches(alignment[1], "timeline") :
              alignment[1].mismatches[k].severity = "medium"
       /\ alignment[1].timeline_alignment = 74

\* the scenario analysed, on texts that add mismatches of other types
C11_Witness ==
    /\ alignment # << >>
    /\ rfp_data.budget = 120000 /\ rfp_data.timeline_months = 6
    /\ proposal_data.budget = 180000 /\ proposal_data.timeline_months = 8
    /\ Len(alignment[1].mismatches) > 2

\* a budget or timeline that is 0 or not in the record
Missing(amount) == amount = 0 \/ amount = Absent

\* C12: when the budget of the RFP or of the proposal is 0 or absent the
\* budget sub-score is 50 and there is no budget mismatch; when either
\* timeline is 0 or absent the timeline sub-score is 50 and there is no
\* timeline mismatch; the call returns an alignment in each of these cases.
C12_MissingFieldsAreNeutral ==
    call_log # << >> =>
        /\ alignment # << >>
        /\ (Missing(rfp_data.budget) \/ Missing(proposal_data.budget))
           => /\ alignment[1].budget_alignment = 50
              /\ TypedMismatches(alignment[1], "budget") = {}
        /\ (Missing(rfp_data.timeline_months) \/ Missing(proposal_data.timeline_months))
           => /\ alignment[1].timeline_alignment = 50
              /\ TypedMismatches(alignment[1], "timeline") = {}

\* an absent RFP budget against a proposal budget, a proposal timeline of 0
\* against an RFP timeline, while the texts still yield mismatches
C12_Witness ==
    /\ alignment # << >>
    /\ rfp_data.budget = Absent /\ proposal_data.budget = 180000
    /\ rfp_data.timeline_months = 6 /\ proposal_data.timeline_months = 0
    /\ alignment[1].mismatches # << >>

\* the text holds one of the keywords, whatever the case of its letters
Mentions(content, keywords) ==
    \E j \in 1..Len(keywords) : Contains(Lower(content), keywords[j])

\* the technology categories the RFP mentions and the proposal does not
MissingTechnology(rfp, proposal) ==
    {i \in 1..Len(technical_keywords) :
        /\ Mentions(rfp.content, technical_keywords[i].keywords)
        /\ ~Mentions(proposal.content, technical_keywords[i].keywords)}

\* C13: with missing_count the number of technology categories that the RFP
\* content mentions and the proposal content does not, the technical
\* sub-score is 100 when missing_count is 0 and max(20, 100 - 20 * missing_count)
\* otherwise, and the alignment has exactly missing_count mismatches of type
\* technical, each of severity high.
C13_TechnicalScoreCountsMissing ==
    alignment # << >> =>
        LET missing_count == Cardinality(MissingTechnology(rfp_data, proposal_data))
        IN  /\ alignment[1].technical_alignment =
                  IF missing_count = 0 THEN 100
                  ELSE IF 100 - 20 * missing_count > 20 THEN 100 - 20 * missing_count
                  ELSE 20
            /\ Cardinality(TypedMismatches(alignment[1], "technical")) = missing_count
            /\ \A k \in TypedMismatches(alignment[1], "technical") :
                   alignment[1].mismatches[k].severity = "high"

\* three categories missing: score 40 and three technical mismatches
C13_Witness ==
    /\ alignment # << >>
    /\ Cardinality(MissingTechnology(rfp_data, proposal_data)) = 3
    /\ alignment[1].technical_alignment = 40
    /\ Cardinality(TypedMismatches(alignment[1], "technical")) = 3

\* the whole numbers nearest to num / den (both neighbours at a tie)
NearestTo(num, den) ==
    {n \in {num \div den, num \div den + 1} :
        /\ 2 * (num - n * den) <= den
        /\ 2 * (n * den - num) <= den}

\* num / den cut to a whole number by int() after binary floating-point
\* evaluation: the floor of the quotient, or one below it where the quotient
\* is whole and comes out a fraction low (0.44 * 100 gives 43)
TruncatedTo(num, den) ==
    {n \in {num \div den - 1, num \div den} :
        n >= 0 /\ n * den <= num /\ num <= (n + 1) * den}

BudgetOverrun(rfp, proposal) ==
    /\ rfp.budget > 0
    /\ proposal.budget > 0
    /\ 10 * proposal.budget > 12 * rfp.budget

\* exactly one budget mismatch, high above ratio 1.5 and medium otherwise
OneBudgetMismatch(a, rfp, proposal) ==
    /\ Cardinality(TypedMismatches(a, "budget")) = 1
    /\ \A k \in TypedMismatches(a, "budget") :
           a.mismatches[k].severity =
               IF 10 * proposal.budget > 15 * rfp.budget THEN "high" ELSE "medium"

TimelineRatioGT(rfp, proposal, tenths) ==
    10 * proposal.timeline_months > tenths * rfp.timeline_months

TimelineRatioLT(rfp, proposal, tenths) ==
    10 * proposal.timeline_months < tenths * rfp.timeline_months

\* the timeline mismatches the claim names for the ratio
TimelineMismatchesAsRatio(a, rfp, proposal) ==
    IF TimelineRatioGT(rfp, proposal, 13)
    THEN /\ Cardinality(TypedMismatches(a, "timeline")) = 1
         /\ \A k \in TypedMismatches(a, "timeline") :
                a.mismatches[k].severity =
                    IF TimelineRatioGT(rfp, proposal, 18) THEN "high" ELSE "medium"
    ELSE IF TimelineRatioLT(rfp, proposal, 6)
    THEN /\ Cardinality(TypedMismatches(a, "timeline")) = 1
         /\ \A k \in TypedMismatches(a, "timeline") : a.mismatches[k].severity = "medium"
    ELSE TypedMismatches(a, "timeline") = {}

\* the timeline sub-score is the one of the ratio, the points being one of `points`
TimelineScoreAsRatio(a, rfp, proposal, over, under) ==
    IF TimelineRatioGT(rfp, proposal, 13)
    THEN \E n \in over : a.timeline_alignment = Max(30, 100 - n)
    ELSE IF TimelineRatioLT(rfp, proposal, 6)
    THEN \E n \in under : a.timeline_alignment = Max(70, 100 - n)
    ELSE a.timeline_alignment = 100

BothTimelines(rfp, proposal) ==
    rfp.timeline_months > 0 /\ proposal.timeline_months > 0

ExitWords ==
    { <<"e","x","i","t">>, <<"q","u","i","t">>, <<"e","n","d">>, <<"s","t","o","p">>,
      <<"b","y","e">>, <<"g","o","o","d","b","y","e">> }

Decided == applied.function = "decision_node"

\* C20: the decision returns end exactly when the error message is non-empty,
\* or the continue flag is false, or the question contains one of exit, quit,
\* end, stop, bye, goodbye as a substring whatever the case of its letters; in
\* every other state it returns continue.
C20_DecisionEndsExactlyOnExit ==
    Decided =>
        LET state == applied.arguments
            leaves == \/ state.error_message # ""
                      \/ ~state.continue_conversation
                      \/ \E word \in ExitWords : Contains(Lower(state.user_question), word)
        IN  applied.result = IF leaves THEN "end" ELSE "continue"

\* "Please STOP" with no error and the flag set: the decision is end
C20_Witness ==
    /\ Decided
    /\ applied.arguments.error_message = ""
    /\ applied.arguments.continue_conversation
    /\ applied.arguments.user_question = QuestionStop
    /\ applied.result = "end"

(***************************************************************************)
(* Properties of the parser of the comparison text                         *)
(***************************************************************************)
Parsed == applied.function = "parse_structured_analysis"

\* the valid JSON objects with a proposals list that a text contains
ProposalObjects(text) ==
    {i \in 1..Len(text) : text[i].kind = "object" /\ text[i].has_proposals /\ text[i].is_list}

\* C14: when the generated text contains a syntactically valid JSON object
\* with a proposals list, the parser returns that decoded object, so the
\* result has as many proposals as the JSON, however many input proposals
\* were passed.
C14_ParseReturnsDecodedObject ==
    Parsed =>
        LET text == RawText(applied.arguments.analysis_text)
        IN  ProposalObjects(text) # {} =>
                /\ applied.result # << >>
                /\ \E i \in ProposalObjects(text) :
                       applied.result[1].proposals = text[i].proposals

Derived == applied.function = "generate_action_items"

\* the items of positions from + 1 .. from + Len(texts) describe the texts in
\* order, with the given priority and dimension, and are not completed
ItemsFor(items, from, texts, priority, dimension) ==
    \A i \in 1..Len(texts) :
        /\ items[from + i].description = texts[i]
        /\ items[from + i].priority = priority
        /\ items[from + i].dimension = dimension
        /\ items[from + i].completed = FALSE

\* C16: the derivation returns one item per recommendation of each dimension
\* and one per priority action, equal texts included: first the short_term
\* items of timeline, requirements, cost and tco in that order, each tagged
\* with its dimension and in list order, then the immediate items tagged
\* general in the order of the priority actions; every item is not completed.
C16_OneItemPerRecommendationInOrder ==
    Derived =>
        LET analysis == applied.arguments
            items == applied.result
            timeline == analysis.timeline_feasibility.recommendations
            requirements == analysis.requirements_clarity.recommendations
            cost == analysis.cost_flexibility.recommendations
            tco == analysis.tco_analysis.recommendations
            priority == analysis.priority_actions
        IN  /\ Len(items) = Len(timeline) + Len(requirements) + Len(cost) + Len(tco)
                            + Len(priority)
            /\ ItemsFor(items, 0, timeline, "short_term", "timeline")
            /\ ItemsFor(items, Len(timeline), requirements, "short_term", "requirements")
            /\ ItemsFor(items, Len(timeline) + Len(requirements), cost, "short_term", "cost")
            /\ ItemsFor(items, Len(timeline) + Len(requirements) + Len(cost), tco,
                        "short_term", "tco")
            /\ ItemsFor(items, Len(timeline) + Len(requirements) + Len(cost) + Len(tco),
                        priority, "immediate", "general")

\* the same text twice under timeline, once under requirements and tco and as
\* a priority action: five items for it, one more for the cost text
C16_Witness ==
    /\ Derived
    /\ applied.arguments.timeline_feasibility.recommendations = <<TextClarify, TextClarify>>
    /\ applied.arguments.requirements_clarity.recommendations = <<TextClarify>>
    /\ applied.arguments.cost_flexibility.recommendations = <<TextExtend>>
    /\ applied.arguments.tco_analysis.recommendations = <<TextClarify>>
    /\ applied.arguments.priority_actions = <<TextClarify>>
    /\ Len(applied.result) = 6
    /\ applied.result[6].priority = "immediate"

(***************************************************************************)
(* Properties of requests addressed by id                                  *)
(***************************************************************************)
\* the request addresses an RFP document, an optimization session or an
\* action item that the stores do not hold
UnknownToOptimization(request) ==
    CASE request.op = "analyze_rfp" -> request.document_id \notin Range(uploaded_proposals)
      [] request.op = "get_rfp_analysis" -> rfp_optimization_sessions[request.session_id] = << >>
      [] request.op = "get_action_items" -> rfp_action_items[request.session_id] = << >>
      [] request.op = "update_action_item" ->
            \/ rfp_action_items[request.session_id] = << >>
            \/ \A i \in 1..Len(rfp_action_items[request.session_id][1]) :
                   rfp_action_items[request.session_id][1][i].id # request.item_id
      [] OTHER -> FALSE

StoresUnchanged ==
    UNCHANGED <<uploaded_proposals, analysis_sessions, chat_sessions,
                rfp_optimization_sessions, rfp_action_items>>

\* C17: every operation addressed to an unknown session, proposal, RFP or
\* action-item id answers not-found (404) and leaves the stored sessions,
\* proposals and action items as they were.
C17_UnknownIdIsNotFound ==
    [][ /\ (addressed' # addressed /\ UnknownToOptimization(addressed'))
            => (addressed'.status = 404 /\ StoresUnchanged)
        /\ (/\ last' # last
            /\ last'.op \in {"ask", "status", "delete_session"}
            /\ last'.route = "analysis"
            /\ analysis_sessions[last'.sid] = << >>)
            => (last'.status = 404 /\ StoresUnchanged) ]_vars

(***************************************************************************)
(* Further properties of the mismatch detector                             *)
(***************************************************************************)
\* C25: a proposal whose budget is 100% over the RFP budget (240000 against
\* 120000, ratio 2.0) is reported with a budget mismatch of severity critical.
C25_DoubleBudgetIsCritical ==
    (/\ alignment # << >>
     /\ rfp_data.budget = 120000
     /\ proposal_data.budget = 240000)
    => \E i \in 1..Len(alignment[1].mismatches) :
           /\ alignment[1].mismatches[i].type = "budget"
           /\ alignment[1].mismatches[i].severity = "critical"

(***************************************************************************)
(* Properties of the RFP optimization agent and router                     *)
(***************************************************************************)
Analyzed == applied.function = "analyze_rfp_document"

\* C21: with the generation backend configured, one analysis makes at most 3
\* attempts; every attempt before the last one made has raised and was
\* retried; the loop stops at the first attempt that yields a structured
\* analysis; and the caller sees a failure only when the third attempt has
\* failed.  (The loop is a bounded for loop, so the call returns.)
C21_FailureOnlyAfterThirdAttempt ==
    (Analyzed /\ applied.arguments.llm_ready) =>
        LET outcomes == applied.arguments.outcomes
            r == applied.result[1]
        IN  /\ r.attempts \in 1..3
            /\ \A i \in 1..(r.attempts - 1) : outcomes[i] = "raises"
            /\ (r.attempts < 3) => outcomes[r.attempts] # "raises"
            /\ ~r.ok => (r.attempts = 3 /\ outcomes[3] = "raises")

(***************************************************************************)
(* Properties of the structured results                                    *)
(***************************************************************************)
Listed == applied.function = "get_structured_analysis_results"

\* C22: the structured results built from a session hold, in order, one entry
\* for each analysis entry that names a proposal of the session and none for
\* the others, so they are never longer than the analysis list and never name
\* an unknown proposal; an entry carries an RFP alignment only when the
\* session has an RFP.
C22_ResultsNameSessionProposals ==
    (Listed /\ applied.result # << >>) =>
        LET state == applied.arguments
            entries == state.structured_analysis[1].proposals
            results == applied.result[1]
            known == SelectSeq(entries, LAMBDA e : e.proposal_id \in Range(state.proposals))
        IN  /\ Len(results) <= Len(entries)
            /\ Len(results) = Len(known)
            /\ \A k \in 1..Len(results) :
                   /\ results[k].id = known[k].proposal_id
                   /\ results[k].id \in Range(state.proposals)
                   /\ results[k].rfp_alignment # << >> => state.rfp_data # << >>

\* an entry for an unknown proposal ahead of one for p1, in a session of p1
\* and the RFP p2: one result, for p1, with its alignment
C22_Witness ==
    /\ Listed
    /\ applied.arguments.proposals = <<"p1", "p2">>
    /\ applied.arguments.rfp_data = <<"p2">>
    /\ applied.arguments.structured_analysis # << >>
    /\ applied.arguments.structured_analysis[1].proposals =
           << Scores("proposal_id_here", 85), Scores("p1", 91) >>
    /\ applied.result # << >>
    /\ Len(applied.result[1]) = 1
    /\ applied.result[1][1].id = "p1"
    /\ applied.result[1][1].rfp_alignment # << >>

\* the stored action items of a session, none when the session is unknown
ActionItems(store, sid) == IF store[sid] = << >> THEN << >> ELSE store[sid][1]

\* the two items agree on everything but completed and completed_at
SameButCompletion(old, new) ==
    /\ new.id = old.id
    /\ new.title = old.title
    /\ new.description = old.description
    /\ new.priority = old.priority
    /\ new.dimension = old.dimension

\* C23: after any sequence of updates every action item has completed_at set
\* exactly when completed is true, and an update changes only the completed
\* and completed_at fields of the item it addresses: the item's id, title,
\* description, priority and dimension, and every other item, stay as they
\* were.
C23_UpdateTogglesOnlyCompletion ==
    [][ /\ \A sid \in SessionIds :
               \A i \in 1..Len(ActionItems(rfp_action_items', sid)) :
                   LET item == ActionItems(rfp_action_items', sid)[i]
                   IN  (item.completed_at # << >>) <=> item.completed
        /\ (addressed'.op = "update_action_item" /\ addressed' # addressed) =>
               \A sid \in SessionIds :
                   LET old == ActionItems(rfp_action_items, sid)
                       new == ActionItems(rfp_action_items', sid)
                   IN  /\ (rfp_action_items'[sid] = << >>) <=> (rfp_action_items[sid] = << >>)
                       /\ Len(new) = Len(old)
                       /\ \A i \in 1..Len(old) :
                              IF sid = addressed'.session_id /\ old[i].id = addressed'.item_id
                              THEN SameButCompletion(old[i], new[i])
                              ELSE new[i] = old[i] ]_vars

\* two items, the second one completed by an update, the first one not
C23_Witness ==
    /\ addressed.op = "update_action_item"
    /\ addressed.status = 200
    /\ rfp_action_items["s1"] # << >>
    /\ Len(rfp_action_items["s1"][1]) = 2
    /\ ~rfp_action_items["s1"][1][1].completed
    /\ rfp_action_items["s1"][1][2].completed
    /\ rfp_action_items["s1"][1][2].completed_at = Now

(***************************************************************************)
(* Further properties of the sessions                                      *)
(***************************************************************************)
ProposalsOf(sessions, sid) == sessions[sid][1].workflow_state.proposals

\* C24: the proposals a session captured at its start are a snapshot: every
\* step that changes the shared collection (an upload completing, a deletion)
\* and every other step that is not a new start or the deletion of the
\* session leaves the session's proposals list as it was.
C24_SessionProposalsAreASnapshot ==
    [][\A sid \in SessionIds :
           (/\ analysis_sessions[sid] # << >>
            /\ analysis_sessions'[sid] # << >>
            /\ ~StartStep("analysis", sid))
           => ProposalsOf(analysis_sessions', sid) = ProposalsOf(analysis_sessions, sid)]_vars

\* a session started on p1 alone, after p1 was deleted and p2 uploaded
C24_Witness ==
    /\ analysis_sessions["s1"] # << >>
    /\ ProposalsOf(analysis_sessions, "s1") = <<"p1">>
    /\ uploaded_proposals = <<"p2">>

\* the workflow state of a session of either route, << >> when there is none
StateOf(route, sid) ==
    IF route = "analysis" THEN AnalysisState(analysis_sessions, sid)
    ELSE ChatState(chat_sessions, sid)

\* C26: the answer a question call returns (status 200, other than the chat
\* route's apology) belongs to the conversation entry that this call appended:
\* the history is one entry longer, and its last entry has the question just
\* asked and the response returned, also when an earlier ask on the session
\* succeeded and this one fails.
C26_AnswerBelongsToThisAsk ==
    [][\A route \in {"analysis", "chat"}, sid \in SessionIds :
           (AskStep(route, sid) /\ last'.status = 200 /\ last'.response # Apology) =>
               LET before == StateOf(route, sid)[1].conversation_history
                   after == StateOf(route, sid)'[1].conversation_history
               IN  /\ Len(after) = Len(before) + 1
                   /\ after[Len(after)].question = last'.question
                   /\ after[Len(after)].response = last'.response]_vars

\* C27: every chat session that send_message stores carries a workflow state,
\* also the one whose first message arrived while no proposals were uploaded,
\* so a follow-up message on a stored session is processed as a question and
\* does not fail with an internal error.
C27_StoredChatSessionsHaveState ==
    [][\A sid \in SessionIds :
           /\ chat_sessions'[sid] # << >> => chat_sessions'[sid][1].workflow_state # << >>
           /\ (last' # last /\ last'.route = "chat" /\ last'.op = "ask" /\ last'.sid = sid)
                  => last'.status # 500]_vars

\* C28: an ask whose retrieval or generation fails, or that runs on a session
\* with no index, sets a non-empty error_message and leaves
\* conversation_history, current_analysis, structured_analysis and the
\* session's proposals as they were.
C28_FailedAskKeepsTheSession ==
    [][\A route \in {"analysis", "chat"}, sid \in SessionIds :
           (AskStep(route, sid) /\ last'.outcome = "failed") =>
               LET before == StateOf(route, sid)[1]
                   after == StateOf(route, sid)'[1]
               IN  /\ after.error_message # ""
                   /\ after.conversation_history = before.conversation_history
                   /\ after.current_analysis = before.current_analysis
                   /\ after.structured_analysis = before.structured_analysis
                   /\ after.proposals = before.proposals]_vars

\* a chat session with one answered question on which a later ask failed
C28_Witness ==
    /\ last.op = "ask"
    /\ last.route = "chat"
    /\ last.outcome = "failed"
    /\ ChatState(chat_sessions, "s1") # << >>
    /\ Len(ChatState(chat_sessions, "s1")[1].conversation_history) = 1
    /\ ChatState(chat_sessions, "s1")[1].error_message # ""

\* C29: an error recorded in a session does not outlive a success: every
\* successful ask leaves error_message empty, so after a failed ask or a
\* failed comparison followed by a successful ask the session summary reports
\* no error and the decision's error condition does not hold.
C29_SuccessClearsTheError ==
    [][\A route \in {"analysis", "chat"}, sid \in SessionIds :
           (AskStep(route, sid) /\ last'.outcome = "answered") =>
               LET after == StateOf(route, sid)'[1]
               IN  /\ after.error_message = ""
                   /\ ~get_session_summary(after).has_errors
                   /\ get_session_summary(after).error_message = ""]_vars

\* a chat session whose comparison failed, after its first answered question
C29_Witness ==
    /\ last.op = "ask"
    /\ last.route = "chat"
    /\ last.outcome = "answered"
    /\ ChatState(chat_sessions, "s1") # << >>
    /\ ChatState(chat_sessions, "s1")[1].current_analysis = ComparisonPlaceholder
    /\ ChatState(chat_sessions, "s1")[1].error_message = ""


\* C30: when an analysis is started with an RFP document id, the state the
\* workflow returns holds every record of the shared collection at that
\* moment as its proposals, the RFP record among them; the index built by the
\* setup step holds the RFP record, and the session stored on success carries
\* that same list, over which the comparison step ran.
C30_RfpIsOneOfTheProposals ==
    [][\A sid \in SessionIds :
           (StartStep("analysis", sid) /\ last'.returned # << >>
                /\ last'.returned[1].rfp_data # << >>) =>
               LET state == last'.returned[1]
                   rfp_id == state.rfp_data[1]
               IN  /\ state.proposals = uploaded_proposals
                   /\ rfp_id \in Range(state.proposals)
                   /\ state.vector_store # << >> =>
                          rfp_id \in Range(state.vector_store[1])
                   /\ last'.status = 200 =>
                          /\ state.vector_store # << >>
                          /\ ProposalsOf(analysis_sessions', sid) = uploaded_proposals
                          /\ analysis_sessions'[sid][1].proposals_count
                                 = Len(uploaded_proposals)]_vars

\* a session started on the RFP "p2" with the proposal "p1" also uploaded
C30_Witness ==
    /\ last.op = "start"
    /\ last.route = "analysis"
    /\ last.status = 200
    /\ analysis_sessions["s1"] # << >>
    /\ analysis_sessions["s1"][1].workflow_state.rfp_data = << "p2" >>
    /\ Range(analysis_sessions["s1"][1].workflow_state.proposals) = {"p1", "p2"}
    /\ analysis_sessions["s1"][1].workflow_state.vector_store # << >>
====
